---------------------------- MODULE Spec2Model ----------------------------
(***************************************************************************)
(* ZeroChat server: the per-role memory store (services/memory_service.py) *)
(* and the AI event dispatcher (routers/ai_behavior.py) as a state machine.*)
(*                                                                         *)
(* A text value is a sequence of one-character strings, so that strip(),   *)
(* lower() and comparison with the literals "none" and "noneed" act on     *)
(* characters as in Python.  A short_term table is the sequence of its     *)
(* rows in AUTOINCREMENT id order, which is the order every SELECT of the  *)
(* source asks for (ORDER BY id ASC).  A time is a number of seconds.      *)
(* Every step of the model is one run of the single-threaded event loop    *)
(* from one suspension point (an awaited HTTP call) to the next.           *)
(***************************************************************************)
EXTENDS Integers, Sequences, FiniteSets, TLC

VARIABLES
    store,      \* role id -> the role's memory.sqlite
    profiles,   \* role id -> data/roles/<id>/profile.json
    settings,   \* config/settings.json
    now,        \* datetime.now(), in seconds
    ev,         \* event id -> the handler run of that request
    last,       \* history: the step just taken and the store calls it made
    appends,    \* history: append_short_term calls since the last update_core_memory
    ops,        \* operations started so far
    ticks,      \* clock advances so far
    sched       \* the APScheduler instance, the files it reads, what it fired

vars == <<store, profiles, settings, now, ev, last, appends, ops, ticks, sched>>

----------------------------------------------------------------------------
(* Bounds of the model *)

\* operations (endpoint calls and events) started in one behaviour
MaxOps == 1
\* store accesses in one behaviour of a role directory with a memory.json
MaxAccesses == 3
\* chat events started in one behaviour of a role with a cycle
MaxChats == 2
\* clock advances in one behaviour
MaxTicks == 1
\* events started in one behaviour of concurrent events
MaxEvents == 2
\* calls of the scheduler's functions from outside in one behaviour
MaxCalls == 1
\* times the clock moves on in one behaviour of the scheduler
MaxAdvances == 1
\* jobs the scheduler runs in one behaviour
MaxFirings == 1
\* context requests made in a row in one behaviour
MaxRequests == 4

----------------------------------------------------------------------------
(* Program constants *)

\* _get_memory_length(): the context window and the summarization threshold
get_memory_length == 60
\* should_generate_sequential_memory: the bridging gap in seconds
SEQUENTIAL_GAP_SECONDS == 1200
\* get_context_messages(role_id, limit = 20)
DEFAULT_CONTEXT_LIMIT == 20
\* append_short_term(..., window_size = 100)
DEFAULT_WINDOW_SIZE == 100
\* append_memory: append_short_term(role_id, "assistant", content, window_size=50)
APPEND_MEMORY_WINDOW == 50
\* _get_meta(conn, key) of a key that was never set: None
NoTime == -1
\* _get_meta(conn, "last_context_block_start", "-1") of a fresh store
NO_BLOCK == -1

\* timedelta(minutes=1), an hour and timedelta(days=1) in seconds
Minute == 60
Hour == 3600
Day == 86400
\* proactive_config.get("min_interval_minutes", 30) and the other defaults
DEFAULT_MIN_INTERVAL == 30
DEFAULT_MAX_INTERVAL == 120
DEFAULT_QUIET_START == 23
DEFAULT_QUIET_END == 7
\* IntervalTrigger(hours=3) of the moment check
MOMENT_CHECK_HOURS == 3

\* create_role: "cycle_length": 30, "period_length": 6 and
\* "last_period_start": "2026-01-24", day 60 of the model's calendar
CREATED_CYCLE_LENGTH == 30
CREATED_PERIOD_LENGTH == 6
CREATED_PERIOD_START == 60
\* _if_in_menstruation: 28 + random.randint(-5, 5), 5 + random.randint(-1, 2)
\* and cycle_length + random.randint(-5, 5)
CYCLE_BASE == 28
CYCLE_SPREAD == 5
PERIOD_BASE == 5
PERIOD_LESS == 1
PERIOD_MORE == 2

WORKER_CORE == "1000000000000"
WORKER_EMOTION == "1000000000001"
WORKER_CHAT_SUMMARY == "1000000000002"
WORKER_SEQUENTIAL == "1000000000003"

Roles == {"r1", "r2"}
WorkerIds == {WORKER_CORE, WORKER_EMOTION, WORKER_CHAT_SUMMARY, WORKER_SEQUENTIAL}
EvIds == {"e1"}

----------------------------------------------------------------------------
(* Text *)

Whitespace == {" "}

RECURSIVE lstrip(_)
lstrip(s) == IF s # <<>> /\ Head(s) \in Whitespace THEN lstrip(Tail(s)) ELSE s

RECURSIVE rstrip(_)
rstrip(s) ==
    IF s # <<>> /\ s[Len(s)] \in Whitespace
    THEN rstrip(SubSeq(s, 1, Len(s) - 1))
    ELSE s

\* the text as it is, no whitespace removed
strip_nothing(s) == s

\* str.strip()
strip(s) == rstrip(lstrip(s))

LowerOf(c) ==
    CASE c = "N" -> "n"
      [] c = "O" -> "o"
      [] c = "E" -> "e"
      [] c = "D" -> "d"
      [] OTHER -> c

\* str.lower()
lower(s) == [i \in 1..Len(s) |-> LowerOf(s[i])]

NONEED == <<"n", "o", "n", "e", "e", "d">>
NONE_TEXT == <<"n", "o", "n", "e">>

Digit == <<"0", "1", "2", "3", "4", "5", "6", "7", "8", "9">>

\* the text of the number i, 0 <= i < 1000
NumText(i) == <<Digit[(i \div 100) + 1], Digit[((i \div 10) % 10) + 1], Digit[(i % 10) + 1]>>

Min(a, b) == IF a <= b THEN a ELSE b


----------------------------------------------------------------------------
(* Memory store: one memory.sqlite per role id *)

\* a row of the short_term table
Row(role, content, timestamp) ==
    [role |-> role, content |-> content, timestamp |-> timestamp]

\* a stored date text: missing or empty, a text date.fromisoformat rejects,
\* or a date, as a number of days
NoDate == [ kind |-> "empty", day |-> 0 ]
BadDate == [ kind |-> "malformed", day |-> 0 ]
OnDay(d) == [ kind |-> "date", day |-> d ]

\* datetime.now().date()
date_of(t) == t \div Day

\* data/roles/<id>/memory.json, the whole-file memory of earlier versions:
\* absent from a role directory that get_memory_db created
NoJson ==
    [ exists |-> FALSE, core_memory |-> <<>>, last_summarized_at |-> NoTime,
      message_count_since_summary |-> 0, updated_at |-> NoTime, short_term |-> <<>> ]

\* a memory.json with these keys
Json(core_memory, last_summarized_at, count, updated_at, short_term) ==
    [ exists |-> TRUE, core_memory |-> core_memory, last_summarized_at |-> last_summarized_at,
      message_count_since_summary |-> count, updated_at |-> updated_at,
      short_term |-> short_term ]

\* _init_db on a new file: both tables empty, every meta key unset; with
\* the tables goes the memory.json of the same directory, which no function
\* writes
EmptyDb ==
    [ core_memory |-> <<>>,
      last_summarized_at |-> NoTime,
      message_count_since_summary |-> 0,
      updated_at |-> NoTime,
      last_context_block_start |-> NO_BLOCK,
      short_term |-> <<>>,
      last_period_start |-> NoDate,
      migrated_from_json |-> NoTime,
      memory_json |-> NoJson ]

\* what a handler can tell of a store without its rows: every memory_meta
\* key and the number of rows of short_term
Marks(db) ==
    [ core_memory |-> db.core_memory,
      last_summarized_at |-> db.last_summarized_at,
      message_count_since_summary |-> db.message_count_since_summary,
      updated_at |-> db.updated_at,
      last_context_block_start |-> db.last_context_block_start,
      entries |-> Len(db.short_term) ]

\* row[0] or "assistant"
RoleOrAssistant(role) == IF role = "" THEN "assistant" ELSE role

\* str(value) of a str, "" of None; the callers of the model pass texts
normalize_core_memory(value) == value

load_memory(db) ==
    [ core_memory |-> db.core_memory,
      short_term |->
          [i \in 1..Len(db.short_term) |->
              Row(RoleOrAssistant(db.short_term[i].role),
                  db.short_term[i].content,
                  db.short_term[i].timestamp)],
      last_summarized_at |-> db.last_summarized_at,
      message_count_since_summary |-> db.message_count_since_summary ]

\* timestamp or datetime.now().isoformat()
TimestampOrNow(ts, t) == IF ts = NoTime THEN t ELSE ts

\* SELECT 1 FROM memory_meta LIMIT 1: some key was set.  Every function that
\* sets a key sets updated_at, but for get_context_messages, which sets
\* last_context_block_start, and _if_in_menstruation, which sets
\* last_period_start; no function deletes a key
has_meta(db) ==
    \/ db.updated_at # NoTime
    \/ db.last_context_block_start # NO_BLOCK
    \/ db.last_period_start # NoDate
    \/ db.migrated_from_json # NoTime

\* SELECT 1 FROM short_term LIMIT 1
has_short(db) == db.short_term # <<>>

\* lines 174-198: the import of memory.json
import_json(db, t) ==
    LET data == db.memory_json
    IN  [ db EXCEPT
            !.core_memory = normalize_core_memory(data.core_memory),
            !.last_summarized_at = data.last_summarized_at,
            !.message_count_since_summary = data.message_count_since_summary,
            !.updated_at = TimestampOrNow(data.updated_at, t),
            !.short_term =
                [i \in 1..Len(data.short_term) |->
                    Row(RoleOrAssistant(data.short_term[i].role),
                        data.short_term[i].content,
                        TimestampOrNow(data.short_term[i].timestamp, t))],
            !.migrated_from_json = t ]

\* a migration that looks only at the short_term table: no marker, and
\* the meta keys do not count as data
maybe_migrate_if_no_rows(db, t) ==
    IF ~db.memory_json.exists THEN db
    ELSE IF has_short(db) THEN db
    ELSE import_json(db, t)

\* _maybe_migrate_from_json(role_id, conn)
maybe_migrate_from_json(db, t) ==
    IF db.migrated_from_json # NoTime THEN db
    ELSE IF ~db.memory_json.exists THEN db
    ELSE IF has_meta(db) \/ has_short(db) THEN db
    ELSE import_json(db, t)

\* _get_connection(role_id): the store as the caller finds it.  Where the
\* directory has no memory.json this is the store as it was
get_connection(db, t) == maybe_migrate_from_json(db, t)

save_memory(db, memory, t) ==
    [ db EXCEPT
        !.core_memory = normalize_core_memory(memory.core_memory),
        !.last_summarized_at = memory.last_summarized_at,
        !.message_count_since_summary = memory.message_count_since_summary,
        !.updated_at = t,
        !.short_term =
            [i \in 1..Len(memory.short_term) |->
                Row(RoleOrAssistant(memory.short_term[i].role),
                    memory.short_term[i].content,
                    TimestampOrNow(memory.short_term[i].timestamp, t))] ]

\* the docstring's sliding window, which the body does not implement:
\* keep the last window_size rows
append_short_term_windowed(db, role, content, window_size, t) ==
    LET rows == Append(db.short_term, Row(role, content, t))
        n == Len(rows)
    IN  [ db EXCEPT
            !.short_term =
                IF n > window_size THEN SubSeq(rows, n - window_size + 1, n) ELSE rows,
            !.message_count_since_summary = @ + 1,
            !.updated_at = t ]

append_short_term(db, role, content, window_size, t) ==
    [ db EXCEPT
        !.short_term = Append(@, Row(role, content, t)),
        !.message_count_since_summary = @ + 1,
        !.updated_at = t ]

get_core_memory(db) == db.core_memory

\* a core-memory write that leaves the counter as it is
update_core_memory_keep_count(db, core_memory, t) ==
    [ db EXCEPT
        !.core_memory = normalize_core_memory(core_memory),
        !.last_summarized_at = t,
        !.updated_at = t ]

update_core_memory(db, core_memory, t) ==
    [ db EXCEPT
        !.core_memory = normalize_core_memory(core_memory),
        !.last_summarized_at = t,
        !.message_count_since_summary = 0,
        !.updated_at = t ]

\* a gate that opens only after more than the gap
should_generate_sequential_memory_after(db, t) ==
    IF db.updated_at = NoTime
    THEN TRUE
    ELSE t - db.updated_at > SEQUENTIAL_GAP_SECONDS

should_generate_sequential_memory(db, t) ==
    IF db.updated_at = NoTime
    THEN TRUE
    ELSE t - db.updated_at >= SEQUENTIAL_GAP_SECONDS

\* a gate that opens only above the threshold
should_summarize_above(db) == db.message_count_since_summary > get_memory_length

should_summarize(db) == db.message_count_since_summary >= get_memory_length

\* a clear that deletes the oldest row only
clear_short_term_oldest(db, t) ==
    [ db EXCEPT !.short_term = IF @ = <<>> THEN @ ELSE Tail(@), !.updated_at = t ]

\* a clear that wipes the summary with the log
clear_memory(db, t) ==
    [ db EXCEPT !.short_term = <<>>, !.core_memory = <<>>, !.last_summarized_at = NoTime,
                !.updated_at = t ]

clear_short_term(db, t) ==
    [ db EXCEPT !.short_term = <<>>, !.updated_at = t ]

\* the last n items of a list: short_term[-n:]
LastN(s, n) == IF Len(s) <= n THEN s ELSE SubSeq(s, Len(s) - n + 1, Len(s))

\* f"{m['role']}：{m['content']}" for the last 60 entries
Conversation(memory) ==
    LET tail == LastN(memory.short_term, get_memory_length)
    IN  [i \in 1..Len(tail) |-> <<tail[i].role, tail[i].content>>]


----------------------------------------------------------------------------
(* Role profiles and the AI Gateway *)

\* the menstruation_cycle of a profile.json; a length of 0 stands for a
\* missing one, which "if not cycle_length" treats alike
Cycle(cycle_length, period_length, start) ==
    [ cycle_length |-> cycle_length, period_length |-> period_length,
      last_period_start |-> start ]

\* create_role, lines 176-181: the gender and the cycle of a new profile
CreatedCycle == Cycle(CREATED_CYCLE_LENGTH, CREATED_PERIOD_LENGTH, OnDay(CREATED_PERIOD_START))

\* temperatures are counted in tenths; a missing "ai_temperature" is None
NoTemperature == -1
DEFAULT_TEMPERATURE == 7
GENERATE_TEMPERATURE == 12
POST_TEMPERATURE == 9
COMMENT_TEMPERATURE == 8

\* the AI fields that the "metadata" dict of a profile.json may carry
Metadata(model, url, key, temperature) ==
    [ ai_model |-> model, ai_api_url |-> url, ai_api_key |-> key,
      ai_temperature |-> temperature ]

\* create_role, line 182: "metadata": role.metadata or {}
NoMetadata == Metadata("", "", "", NoTemperature)

Profile(id, model, url, key, prompt) ==
    [ exists |-> TRUE, id |-> id, ai_model |-> model, ai_api_url |-> url,
      ai_api_key |-> key, has_prompt |-> prompt,
      gender |-> "men", menstruation_cycle |-> CreatedCycle,
      ai_temperature |-> NoTemperature, metadata |-> NoMetadata ]

\* load_role of an id without profile.json: None
NoProfile ==
    [ exists |-> FALSE, id |-> "", ai_model |-> "", ai_api_url |-> "",
      ai_api_key |-> "", has_prompt |-> FALSE,
      gender |-> "", menstruation_cycle |-> Cycle(0, 0, NoDate),
      ai_temperature |-> NoTemperature, metadata |-> NoMetadata ]

ProfileIds == Roles \cup WorkerIds

load_role(id) == profiles[id]

\* _normalize_api_url: the result always ends with the completions path
normalize_api_url(url) == <<url, "/v1/chat/completions">>

Or(a, b) == IF a # "" THEN a ELSE b

\* "a if a is not None else b" on temperatures
OrTemperature(a, b) == IF a # NoTemperature THEN a ELSE b

\* "a or b" on temperatures: 0 is falsy as None is
OrTruthy(a, b) == IF a # NoTemperature /\ a # 0 THEN a ELSE b

\* _get_role_ai_config and _resolve_ai_config: role field, else the role's
\* metadata, else settings.json, else the default written in the code
get_role_ai_config(role_data) ==
    [ model |-> Or(Or(Or(role_data.ai_model, role_data.metadata.ai_model),
                      settings.ai_model), "gpt-3.5-turbo"),
      url |-> normalize_api_url(Or(Or(role_data.ai_api_url, role_data.metadata.ai_api_url),
                                   settings.ai_api_url)),
      key |-> Or(Or(role_data.ai_api_key, role_data.metadata.ai_api_key),
                 settings.ai_api_key) ]

\* the fourth value _get_role_ai_config returns: lines 49, 55 and 34-38
role_temperature(role_data) ==
    OrTemperature(OrTemperature(OrTemperature(role_data.ai_temperature,
                                              role_data.metadata.ai_temperature),
                                settings.ai_temperature),
                  DEFAULT_TEMPERATURE)

\* the temperature of the HTTP body: the generator passes "temp_override or
\* fallback", call_ai "temperature or default_temperature" (lines 121-126),
\* and _resolve_ai_config keeps what is not None
call_temperature(role_data, fallback) ==
    OrTemperature(OrTruthy(OrTruthy(role_temperature(role_data), fallback),
                           OrTemperature(settings.ai_temperature, DEFAULT_TEMPERATURE)),
                  OrTemperature(settings.ai_temperature, DEFAULT_TEMPERATURE))

\* call_ai: "if not resolved_url or not resolved_key"
call_ai_configured(cfg) == cfg.url # <<>> /\ cfg.key # ""

\* call_ai_direct: "if not api_url or not api_key or not model"
call_ai_direct_configured(p) ==
    p.ai_api_url # "" /\ p.ai_api_key # "" /\ p.ai_model # ""

\* the model, URL and key that call_ai_direct sends for profile p
direct_config(p) ==
    [ model |-> p.ai_model, url |-> normalize_api_url(p.ai_api_url), key |-> p.ai_api_key ]

NoCall == [ model |-> "", url |-> <<>>, key |-> "" ]

\* what _post_chat returns
AiOk(content) == [ success |-> TRUE, content |-> content, error |-> "" ]
AiFail(error) == [ success |-> FALSE, content |-> <<>>, error |-> error ]

\* a value of type Optional[str]
None == [ none |-> TRUE, text |-> <<>> ]
Str(s) == [ none |-> FALSE, text |-> s ]

\* AIResponse
AIResponse(success, action, content, error) ==
    [ http |-> 200, success |-> success, action |-> action,
      content |-> content, error |-> error ]

NoResponse == [ http |-> 0, success |-> FALSE, action |-> "", content |-> None, error |-> "" ]

\* an exception that leaves the handler: FastAPI answers with this status
HttpError(status) ==
    [ http |-> status, success |-> FALSE, action |-> "", content |-> None, error |-> "" ]


----------------------------------------------------------------------------
(* _if_in_menstruation(role_id) *)

\* the (in_menstruation, menstruation_day) pair of lines 67, 73 and 77
NoInformation == [ in_menstruation |-> "none", day |-> 0 ]

\* random.randint(-5, 5) and random.randint(-1, 2)
CycleDraws == (0 - CYCLE_SPREAD)..CYCLE_SPREAD
PeriodDraws == (0 - PERIOD_LESS)..PERIOD_MORE

\* lines 85-95: the lengths of the profile, or drawn ones
CycleLengths(cycle) ==
    IF cycle.cycle_length = 0 THEN { CYCLE_BASE + r : r \in CycleDraws }
    ELSE { cycle.cycle_length }

PeriodLengths(cycle) ==
    IF cycle.period_length = 0 THEN { PERIOD_BASE + r : r \in PeriodDraws }
    ELSE { cycle.period_length }

\* lines 103-108: the text of the meta row, else the one of the profile
last_period_start_raw(db, cycle) ==
    IF db.last_period_start.kind # "empty" THEN db.last_period_start
    ELSE cycle.last_period_start

\* lines 110-113: the date of the text, or today minus a drawn number of days
StartDates(raw, cycle_length, today) ==
    IF raw.kind = "date" THEN { raw.day }
    ELSE { today - k : k \in 0..cycle_length }

\* one round of the loop without the clip of lines 119-120
next_period_start_unclipped(d, cycle_length, r, today) == d + cycle_length + r

\* lines 118-120: one round of the loop, r the draw
next_period_start(d, cycle_length, r, today) ==
    LET later == d + cycle_length + r
    IN  IF later > today THEN today ELSE later

\* lines 117-120: every date the loop can end with, from the dates of days
RECURSIVE advance_period(_, _, _)
advance_period(days, cycle_length, today) ==
    LET behind == { d \in days : d + cycle_length <= today }
    IN  IF behind = {} THEN days
        ELSE advance_period(
                 (days \ behind) \cup
                     { next_period_start(d, cycle_length, r, today) :
                         d \in behind, r \in CycleDraws },
                 cycle_length, today)

\* the test of line 124 taken with <= in place of <
cycle_day_inclusive(day_offset, period_length) ==
    IF day_offset <= period_length
    THEN [ in_menstruation |-> "true", day |-> day_offset + 1 ]
    ELSE [ in_menstruation |-> "false", day |-> day_offset - period_length + 1 ]

\* lines 123-127
cycle_day(day_offset, period_length) ==
    IF day_offset < period_length
    THEN [ in_menstruation |-> "true", day |-> day_offset + 1 ]
    ELSE [ in_menstruation |-> "false", day |-> day_offset - period_length + 1 ]

\* every outcome of _if_in_menstruation for a profile.json and a store at
\* time t: the pair returned, the store and the profile it leaves
if_in_menstruation(profile, db, t) ==
    IF ~profile.exists \/ profile.gender # "women"
    THEN { [ result |-> NoInformation, db |-> db, profile |-> profile ] }
    ELSE LET cycle == profile.menstruation_cycle
             today == date_of(t)
             opened == get_connection(db, t)
             raw == last_period_start_raw(opened, cycle)
         IN  UNION { UNION { {
                 [ result |-> cycle_day(today - d, pl),
                   db |-> [opened EXCEPT !.last_period_start = OnDay(d)],
                   profile |-> [profile EXCEPT !.menstruation_cycle.cycle_length = cl,
                                               !.menstruation_cycle.period_length = pl] ] :
                     d \in advance_period(StartDates(raw, cl, today), cl, today) } :
                 pl \in PeriodLengths(cycle) } : cl \in CycleLengths(cycle) }

\* _get_menstruation_cycle_info: None (FALSE), or the lengths of a "women" role
get_menstruation_cycle_info(profile) == profile.exists /\ profile.gender = "women"

----------------------------------------------------------------------------
(* Handler runs *)

\* 4 digits of a time
TimeText(t) == <<Digit[((t \div 1000) % 10) + 1]>> \o NumText(t % 1000)

\* generate_with_role: f"message: {user_message}\ntime: {now} {weekday}",
\* which _post_chat hands back as user_content
UserContent(msg, t) == <<"message: ">> \o msg \o <<"time: ">> \o TimeText(t)

NoRow == Row("", <<>>, NoTime)

\* a call of the memory store that writes, as a step makes it
Call(op, rid, row) == [ op |-> op, rid |-> rid, row |-> row ]

IdleEvent ==
    [ kind |-> "none", pc |-> "idle", rid |-> "", role |-> NoProfile,
      msg |-> <<>>, limit |-> 0, total |-> 0, block_start |-> 0,
      early |-> FALSE, trigger |-> FALSE, summary |-> None, history |-> <<>>,
      sequential |-> None, reply |-> <<>>, target |-> "", new_core |-> None,
      outcome |-> "", emoji |-> None, call |-> NoCall, gate |-> "",
      sent |-> 0, result |-> AiFail(""), response |-> NoResponse, ret |-> None,
      generation |-> AiFail(""), before |-> Marks(EmptyDb), origin |-> "request",
      context |-> "", cycle |-> NoInformation, note |-> "",
      temperature |-> NoTemperature, gap |-> FALSE,
      excerpt |-> <<>> ]

\* a run from one suspension point to the next: the event, the stores, the
\* writing store calls made in order, whether the context rows were read,
\* and the profile.json files as the run leaves them
Res(e, st, calls, read) ==
    [ e |-> e, st |-> st, calls |-> calls, read |-> read, files |-> profiles ]

\* the step appends one row through append_short_term
DoAppend(r, rid, role, content, window_size, t) ==
    [ r EXCEPT
        !.st = [r.st EXCEPT ![rid] = append_short_term(@, role, content, window_size, t)],
        !.calls = Append(@, Call("append_short_term", rid, Row(role, content, t))) ]

\* whether a worker's sub-call reaches the HTTP request: load_role gives a
\* profile (else worker_data.get raises, which the caller's except catches)
\* and call_ai_direct finds model, URL and key
WorkerCallable(worker_id) ==
    load_role(worker_id).exists /\ call_ai_direct_configured(load_role(worker_id))

Suspend(r, pc, cfg) == [ r EXCEPT !.e.pc = pc, !.e.call = cfg ]

Finish(r, response) == [ r EXCEPT !.e.pc = "done", !.e.response = response ]

----------------------------------------------------------------------------
(* detect_emotion_and_get_emoji *)

HAPPY == <<"h", "a", "p", "p", "y">>
EXCITED == <<"e", "x", "c", "i", "t", "e", "d">>
AllowedEmotions == { HAPPY, EXCITED, NONE_TEXT }
\* get_role_dir creates no emojis/excited directory
EmojiDirs == { HAPPY }

\* lines 92-114: the emotion tag, or None
EmotionOf(resp, has_files) ==
    LET detected == lower(strip(resp.content))
    IN  IF ~resp.success THEN None
        ELSE IF detected \notin AllowedEmotions \/ detected = NONE_TEXT THEN None
        ELSE IF detected \notin EmojiDirs THEN None
        ELSE IF ~has_files THEN None
        ELSE Str(detected)

\* handle_chat, lines 231-242
ChatReturn(r, emoji) ==
    LET reply == IF emoji.none THEN r.e.reply ELSE r.e.reply \o <<" [">> \o emoji.text \o <<"]">>
    IN  Finish([r EXCEPT !.e.emoji = emoji],
               AIResponse(TRUE, "reply", Str(reply), ""))

\* detect_emotion_and_get_emoji up to its HTTP call; skip is the random draw
EmotionBegin(r, skip) ==
    LET worker == load_role(WORKER_EMOTION)
    IN  IF skip THEN ChatReturn(r, None)
        ELSE IF ~call_ai_direct_configured(worker) THEN ChatReturn(r, None)
        ELSE Suspend(r, "emotion", direct_config(worker))


----------------------------------------------------------------------------
(* trigger_memory_summary(role_id, role_data) *)

\* role_data.get("id", role_id): the role whose memory is read and rewritten
SummaryTarget(role_id, role_data) == IF role_data.id # "" THEN role_data.id ELSE role_id

\* the profile of the role the event is for, in place of the worker's
SummaryCallerOwnRole(role_id, role_data) == role_data

\* the profile whose model, URL and key the call uses: the one line 510 loads
SummaryCaller(role_id, role_data) == load_role(role_id)

\* lines 483-519: the gate, the prompt, the caller's profile.  The result's
\* e.gate says how far the call got: "noneed", "none" or "await"; e.excerpt
\* is the conversation of the prompt that is sent, short_term[-60:].
SummaryBegin(r, role_id, role_data) ==
    LET target == SummaryTarget(role_id, role_data)
        caller == SummaryCaller(role_id, role_data)
        r1 == [r EXCEPT !.e.target = target]
    IN  IF ~should_summarize(r.st[target])
        THEN [r1 EXCEPT !.e.new_core = Str(NONEED), !.e.outcome = "gate_closed", !.e.gate = "noneed"]
        ELSE IF ~caller.exists \/ ~call_ai_direct_configured(caller)
        THEN [r1 EXCEPT !.e.new_core = None, !.e.outcome = "failed", !.e.gate = "none"]
        ELSE [Suspend(r1, "core", direct_config(caller))
                 EXCEPT !.e.gate = "await",
                        !.e.excerpt = LastN(r.st[target].short_term, get_memory_length)]

\* lines 520-530, with the gateway's answer
SummaryEnd(r, resp, t) ==
    LET new_core == strip(resp.content)
        target == r.e.target
    IN  IF resp.success /\ resp.content # <<>>
        THEN [r EXCEPT
                !.st = [r.st EXCEPT ![target] = update_core_memory(@, new_core, t)],
                !.calls = Append(@, Call("update_core_memory", target, NoRow)),
                !.e.result = resp,
                !.e.new_core = Str(new_core),
                !.e.outcome = "performed"]
        ELSE [r EXCEPT !.e.result = resp, !.e.new_core = None, !.e.outcome = "failed"]

----------------------------------------------------------------------------
(* sequential_memory_generation(role_id, worker_id, now_content) *)

SEQUENTIAL_MARK == <<"system:sequential-memory">>
SEQUENTIAL_PREFIX == <<"sequential-memory:">>

\* lines 436-462: the gate and the worker's profile
SequentialBegin(r, t) ==
    IF ~should_generate_sequential_memory(r.st[r.e.rid], t)
    THEN [r EXCEPT !.e.sequential = Str(NONEED), !.e.gate = "noneed"]
    ELSE IF ~WorkerCallable(WORKER_SEQUENTIAL)
    THEN [r EXCEPT !.e.sequential = None, !.e.gate = "none"]
    ELSE [Suspend(r, "sequential", direct_config(load_role(WORKER_SEQUENTIAL)))
             EXCEPT !.e.gate = "await"]

\* a sequential_memory_generation that takes "none" for the literal only in
\* lower case
SequentialEndLowerCase(r, resp, t) ==
    LET new_memory == strip(resp.content)
        r0 == [r EXCEPT !.e.result = resp]
        r1 == DoAppend(r0, r.e.rid, "user", SEQUENTIAL_MARK, DEFAULT_WINDOW_SIZE, t)
        r2 == DoAppend(r1, r.e.rid, "assistant", SEQUENTIAL_PREFIX \o new_memory,
                       DEFAULT_WINDOW_SIZE, t)
    IN  IF resp.success /\ resp.content # <<>>
        THEN IF strip(resp.content) = NONE_TEXT
             THEN [r0 EXCEPT !.e.sequential = Str(NONEED)]
             ELSE [r2 EXCEPT !.e.sequential = Str(new_memory)]
        ELSE [r0 EXCEPT !.e.sequential = None]

\* lines 463-474, with the gateway's answer, which e.result keeps
SequentialEnd(r, resp, t) ==
    LET new_memory == strip(resp.content)
        r0 == [r EXCEPT !.e.result = resp]
        r1 == DoAppend(r0, r.e.rid, "user", SEQUENTIAL_MARK, DEFAULT_WINDOW_SIZE, t)
        r2 == DoAppend(r1, r.e.rid, "assistant", SEQUENTIAL_PREFIX \o new_memory,
                       DEFAULT_WINDOW_SIZE, t)
    IN  IF resp.success /\ resp.content # <<>>
        THEN IF lower(strip(resp.content)) = NONE_TEXT
             THEN [r0 EXCEPT !.e.sequential = Str(NONEED)]
             ELSE [r2 EXCEPT !.e.sequential = Str(new_memory)]
        ELSE [r0 EXCEPT !.e.sequential = None]

----------------------------------------------------------------------------
(* get_context_messages(role_id, limit) and trigger_chat_summary *)

CHAT_SUMMARY_MARK == <<"system:chat-summary">>
CHAT_SUMMARY_PREFIX == <<"chat-summary:">>

\* a block start that rounds the count down, not the last index
block_start_of_count(total, limit) == (total \div limit) * limit

\* a block as long as the two entries of a chat summary
block_start_of_pair(total, limit) == ((total - 1) \div 2) * 2

\* line 352
block_start_of(total, limit) == ((total - 1) \div limit) * limit

\* SELECT role, content ... ORDER BY id ASC LIMIT ? OFFSET ?
select_rows(rows, limit, offset) ==
    LET page == SubSeq(rows, offset + 1, Min(offset + limit, Len(rows)))
    IN  [i \in 1..Len(page) |->
            [role |-> RoleOrAssistant(page[i].role), content |-> page[i].content]]

\* a get_context_messages that stores the block only after the chat summary
\* has returned
ContextBeginUnstored(r, limit) ==
    LET db == r.st[r.e.rid]
        total == Len(db.short_term)
        block_start == block_start_of(total, limit)
        r0 == [r EXCEPT !.e.limit = limit, !.e.total = total]
        moved == [r0 EXCEPT !.e.block_start = block_start, !.e.trigger = TRUE]
    IN  IF limit <= 0 \/ total = 0
        THEN [r0 EXCEPT !.e.early = TRUE, !.e.gate = "early"]
        ELSE IF db.last_context_block_start # block_start
        THEN IF WorkerCallable(WORKER_CHAT_SUMMARY)
             THEN [Suspend(moved, "chat_summary", direct_config(load_role(WORKER_CHAT_SUMMARY)))
                      EXCEPT !.e.gate = "await"]
             ELSE [moved EXCEPT !.e.summary = None, !.e.gate = "none"]
        ELSE [r0 EXCEPT !.e.block_start = block_start, !.e.gate = "same"]

\* lines 341-364: the block, its stored value, and whether the chat summary
\* reaches its HTTP call
ContextBegin(r, limit) ==
    LET db == r.st[r.e.rid]
        total == Len(db.short_term)
        block_start == block_start_of(total, limit)
        r0 == [r EXCEPT !.e.limit = limit, !.e.total = total]
        moved == [r0 EXCEPT
                    !.st = [r.st EXCEPT ![r.e.rid].last_context_block_start = block_start],
                    !.calls = Append(@, Call("set_block", r.e.rid, NoRow)),
                    !.e.block_start = block_start,
                    !.e.trigger = TRUE]
    IN  IF limit <= 0 \/ total = 0
        THEN [r0 EXCEPT !.e.early = TRUE, !.e.gate = "early"]
        ELSE IF db.last_context_block_start # block_start
        THEN IF WorkerCallable(WORKER_CHAT_SUMMARY)
             THEN [Suspend(moved, "chat_summary", direct_config(load_role(WORKER_CHAT_SUMMARY)))
                      EXCEPT !.e.gate = "await"]
             ELSE [moved EXCEPT !.e.summary = None, !.e.gate = "none"]
        ELSE [r0 EXCEPT !.e.block_start = block_start, !.e.gate = "same"]

\* trigger_chat_summary, lines 321-332, with the gateway's answer
ChatSummaryEnd(r, resp, t) ==
    LET new_memory == strip(resp.content)
        r1 == DoAppend(r, r.e.rid, "user", CHAT_SUMMARY_MARK, DEFAULT_WINDOW_SIZE, t)
        r2 == DoAppend(r1, r.e.rid, "assistant", CHAT_SUMMARY_PREFIX \o new_memory,
                       DEFAULT_WINDOW_SIZE, t)
    IN  IF resp.success /\ resp.content # <<>>
        THEN [r2 EXCEPT !.e.summary = Str(new_memory)]
        ELSE [r EXCEPT !.e.summary = None]

\* a read of the rows that were in the block when the request counted them
ContextReadCounted(r) ==
    IF r.e.early
    THEN [r EXCEPT !.e.history = <<>>]
    ELSE [r EXCEPT
            !.e.history = select_rows(SubSeq(r.st[r.e.rid].short_term, 1, r.e.total),
                                      r.e.limit, r.e.block_start),
            !.read = TRUE]

\* lines 368-377: the rows of the block as the store holds them now
ContextRead(r) ==
    IF r.e.early
    THEN [r EXCEPT !.e.history = <<>>]
    ELSE [r EXCEPT
            !.e.history = select_rows(r.st[r.e.rid].short_term, r.e.limit, r.e.block_start),
            !.read = TRUE]

----------------------------------------------------------------------------
(* handle_chat *)

\* a handle_chat that gives up the request when the core-memory summary
\* returns None
ChatAfterSummaryStrict(r, skip) ==
    IF r.e.new_core.none THEN Finish(r, HttpError(500)) ELSE EmotionBegin(r, skip)

\* lines 223-230: the outcome is only logged; then the emotion sub-call
ChatAfterSummary(r, skip) == EmotionBegin(r, skip)

\* a handle_chat that loads the memory when the event starts and, after the
\* generation, saves that copy, the rows the log had then, with the two
\* turns added
ChatAfterGenerateStale(r, resp, skip, t) ==
    LET r0 == [r EXCEPT !.e.generation = resp, !.e.reply = resp.content]
        turns == << Row("user", UserContent(r.e.msg, r.e.sent), t),
                    Row("assistant", resp.content, t) >>
        correct == DoAppend(DoAppend(r0, r.e.rid, "user", turns[1].content, DEFAULT_WINDOW_SIZE, t),
                            r.e.rid, "assistant", resp.content, DEFAULT_WINDOW_SIZE, t)
        stale == [correct EXCEPT
                    !.st[r.e.rid].short_term =
                        SubSeq(r.st[r.e.rid].short_term, 1,
                               Min(r.e.before.entries, Len(r.st[r.e.rid].short_term))) \o turns,
                    !.st[r.e.rid].message_count_since_summary =
                        r.e.before.message_count_since_summary + 2]
    IN  IF ~resp.success
        THEN Finish(r0, AIResponse(FALSE, "ignore", None, resp.error))
        ELSE EmotionBegin(stale, skip)

\* lines 212-222, with the answer of generate_with_role
ChatAfterGenerate(r, resp, skip, t) ==
    LET r0 == [r EXCEPT !.e.generation = resp]
        r1 == [r0 EXCEPT !.e.reply = resp.content]
        r2 == DoAppend(r1, r.e.rid, "user", UserContent(r.e.msg, r.e.sent),
                       DEFAULT_WINDOW_SIZE, t)
        r3 == DoAppend(r2, r.e.rid, "assistant", resp.content, DEFAULT_WINDOW_SIZE, t)
        r4 == SummaryBegin(r3, WORKER_CORE, r.e.role)
    IN  IF ~resp.success
        THEN Finish(r0, AIResponse(FALSE, "ignore", None, resp.error))
        ELSE IF r4.e.gate = "await" THEN r4
        ELSE ChatAfterSummary(r4, skip)

\* generate_with_role up to the HTTP call of call_ai
GenerateBegin(r, t) ==
    LET cfg == get_role_ai_config(r.e.role)
    IN  IF ~r.e.role.has_prompt
        THEN Finish(r, HttpError(500))
        ELSE IF ~call_ai_configured(cfg)
        THEN Finish(r, AIResponse(FALSE, "ignore", None, "AI API not configured"))
        ELSE Suspend([r EXCEPT !.e.sent = t,
                               !.e.temperature = call_temperature(r.e.role, GENERATE_TEMPERATURE)],
                     "generate", cfg)


\* lines 186-196: which sentence about the cycle joins the prompt context
CycleSentence(result) ==
    IF result.in_menstruation = "true" THEN "in_period"
    ELSE IF result.in_menstruation = "false" THEN "not_in_period"
    ELSE ""

\* handle_chat, lines 184-210, with one outcome o of the cycle check
ChatAfterCycle(r, o, t) ==
    GenerateBegin([r EXCEPT !.st[r.e.rid] = o.db,
                            !.files[r.e.rid] = o.profile,
                            !.calls = Append(@, Call("set_last_period_start", r.e.rid, NoRow)),
                            !.e.cycle = o.result,
                            !.e.note = CycleSentence(o.result)], t)

\* handle_chat, lines 171-210: the bridging memory is over; the cycle check of
\* lines 184-196 returns (None, None) for the gender "men" that create_role
\* writes, and makes its random draws in a step of its own otherwise
ChatAfterSequential(r, t) ==
    IF get_menstruation_cycle_info(r.files[r.e.rid])
    THEN Suspend(r, "cycle", NoCall)
    ELSE GenerateBegin(r, t)

\* handle_chat, lines 160-171: the context is read, then the bridging memory
ChatAfterContext(r, t) ==
    LET r1 == ContextRead(r)
        r2 == SequentialBegin(r1, t)
    IN  IF r2.e.gate = "await" THEN r2 ELSE ChatAfterSequential(r2, t)

\* handle_chat from its first line to its first suspension
ChatBegin(r, t) ==
    LET r1 == ContextBegin(r, get_memory_length)
    IN  IF r1.e.gate = "await" THEN r1 ELSE ChatAfterContext(r1, t)

----------------------------------------------------------------------------
(* handle_proactive, handle_task, handle_moment_post, handle_moment_comment *)

\* a handler that logs the prompt it was triggered with as a user entry
\* before the reply
ReplyAfterGenerateWithPrompt(r, resp, t) ==
    LET r0 == [r EXCEPT !.e.generation = resp, !.e.reply = resp.content]
        r1 == DoAppend(r0, r.e.rid, "user", r.e.msg, DEFAULT_WINDOW_SIZE, t)
        r2 == DoAppend(r1, r.e.rid, "assistant", resp.content, DEFAULT_WINDOW_SIZE, t)
    IN  IF ~resp.success
        THEN Finish([r EXCEPT !.e.generation = resp],
                    AIResponse(FALSE, "ignore", None, resp.error))
        ELSE Finish(r2, AIResponse(TRUE, "reply", Str(resp.content), ""))

\* lines 266-278 and 306-314: the failure result, or one assistant entry
\* and the reply
ReplyAfterGenerate(r, resp, t) ==
    LET r0 == [r EXCEPT !.e.generation = resp, !.e.reply = resp.content]
        r1 == DoAppend(r0, r.e.rid, "assistant", resp.content, DEFAULT_WINDOW_SIZE, t)
    IN  IF ~resp.success
        THEN Finish([r EXCEPT !.e.generation = resp],
                    AIResponse(FALSE, "ignore", None, resp.error))
        ELSE Finish(r1, AIResponse(TRUE, "reply", Str(resp.content), ""))

\* handle_proactive, lines 257-264: the context is read, then generate_with_role
ProactiveAfterContext(r, t) == GenerateBegin(ContextRead(r), t)

\* handle_proactive from its first line to its first suspension
ProactiveBegin(r, t) ==
    LET r1 == ContextBegin(r, get_memory_length)
    IN  IF r1.e.gate = "await" THEN r1 ELSE ProactiveAfterContext(r1, t)

\* handle_task from its first line to its suspension in generate_with_role
TaskBegin(r, t) == GenerateBegin(r, t)

\* generate_moment_post and generate_moment_comment up to the HTTP call of
\* call_ai: the prompt needs no persona
MomentGenerateBegin(r) ==
    LET cfg == get_role_ai_config(r.e.role)
    IN  IF ~call_ai_configured(cfg)
        THEN Finish(r, AIResponse(FALSE, "ignore", None, "AI API not configured"))
        ELSE Suspend([r EXCEPT !.e.temperature =
                          call_temperature(r.e.role, IF r.e.kind = "moment" THEN POST_TEMPERATURE
                                                     ELSE COMMENT_TEMPERATURE)],
                     "generate", cfg)

\* handle_moment_post
MomentBegin(r) == MomentGenerateBegin(r)

\* a handle_moment_comment that generates the comment whatever the draw is
CommentBeginAlways(r, skip) ==
    MomentGenerateBegin([r EXCEPT !.e.gate = IF skip THEN "skip" ELSE "interact"])

\* handle_moment_comment: skip is the draw random.random() > 0.5, which
\* e.gate keeps
CommentBegin(r, skip) ==
    IF skip THEN Finish([r EXCEPT !.e.gate = "skip"], AIResponse(TRUE, "ignore", None, ""))
    ELSE MomentGenerateBegin([r EXCEPT !.e.gate = "interact"])

\* handle_moment_post lines 327-335 and handle_moment_comment lines 357-366
MomentAfterGenerate(r, resp, action) ==
    LET r0 == [r EXCEPT !.e.generation = resp, !.e.reply = resp.content]
    IN  IF ~resp.success
        THEN Finish([r EXCEPT !.e.generation = resp],
                    AIResponse(FALSE, "ignore", None, resp.error))
        ELSE Finish(r0, AIResponse(TRUE, action, Str(resp.content), ""))

\* the handler of the event's type goes on with the generation's answer
AfterGenerate(r, resp, skip, t) ==
    CASE r.e.kind = "chat" -> ChatAfterGenerate(r, resp, skip, t)
      [] r.e.kind \in {"proactive", "task"} -> ReplyAfterGenerate(r, resp, t)
      [] r.e.kind = "moment" -> MomentAfterGenerate(r, resp, "post")
      [] r.e.kind = "comment" -> MomentAfterGenerate(r, resp, "comment")

\* the caller of get_context_messages goes on after the chat summary
AfterChatSummary(r, t) ==
    CASE r.e.kind = "chat" -> ChatAfterContext(r, t)
      [] r.e.kind = "proactive" -> ProactiveAfterContext(r, t)
      [] OTHER -> [ContextRead(r) EXCEPT !.e.pc = "done"]

----------------------------------------------------------------------------
(* scheduler_service *)

\* the proactive_config of a profile.json
ProactiveConfig(enabled, min, max, quiet_start, quiet_end) ==
    [ enabled |-> enabled, min_interval_minutes |-> min, max_interval_minutes |-> max,
      quiet_hours_start |-> quiet_start, quiet_hours_end |-> quiet_end ]

\* role.get("proactive_config", {}) of a profile without one: every .get
\* gives its default
NoProactiveConfig ==
    ProactiveConfig(FALSE, DEFAULT_MIN_INTERVAL, DEFAULT_MAX_INTERVAL,
                    DEFAULT_QUIET_START, DEFAULT_QUIET_END)

\* datetime.hour
hour_of(t) == (t \div Hour) % 24

\* datetime.replace(hour=h, minute=0, second=0)
replace_hour(t, h) == (t \div Day) * Day + h * Hour

\* the jobs of the scheduler: an id, the run date of its trigger, the
\* argument of the job function and the time add_job was called
Job(id, run_date, arg, added) ==
    [ id |-> id, run_date |-> run_date, arg |-> arg, added |-> added ]

proactive_job_id(role_id) == <<"proactive", role_id>>
task_job_id(task_id) == <<"task", task_id>>
MOMENT_CHECK == <<"moment_check", "">>

\* scheduler.get_job(job_id) / scheduler.remove_job(job_id)
get_job(jobs, job_id) == { j \in jobs : j.id = job_id }
remove_job(jobs, job_id) == jobs \ get_job(jobs, job_id)

\* an add_job that keeps a job of the same id
add_job_beside(jobs, job) == jobs \cup { job }

\* scheduler.add_job(..., id=job_id, replace_existing=True)
add_job(jobs, job) == remove_job(jobs, job.id) \cup { job }

\* random.randint(min_minutes, max_minutes): the two ends stand for the range
Intervals(cfg) == { cfg.min_interval_minutes, cfg.max_interval_minutes }

\* lines 93-104: the run date of the next proactive job
next_run_of(cfg, interval_minutes, t) ==
    LET current_hour == hour_of(t)
        deferred == replace_hour(t, cfg.quiet_hours_end)
    IN  IF cfg.quiet_hours_start <= current_hour \/ current_hour < cfg.quiet_hours_end
        THEN IF deferred < t THEN deferred + Day ELSE deferred
        ELSE t + interval_minutes * Minute

\* a schedule_proactive_for_role that leaves the old job in place
schedule_proactive_beside(jobs, role_id, exists, cfg, interval_minutes, t) ==
    IF ~exists \/ ~cfg.enabled THEN jobs
    ELSE add_job_beside(jobs, Job(proactive_job_id(role_id),
                                  next_run_of(cfg, interval_minutes, t), role_id, t))

\* schedule_proactive_for_role(role_id): the jobs afterwards
schedule_proactive_for_role(jobs, role_id, exists, cfg, interval_minutes, t) ==
    LET removed == remove_job(jobs, proactive_job_id(role_id))
    IN  IF ~exists \/ ~cfg.enabled THEN removed
        ELSE add_job(removed, Job(proactive_job_id(role_id),
                                  next_run_of(cfg, interval_minutes, t), role_id, t))

\* a task of scheduled.json; trigger is the trigger_time field, and repeat
\* is None as create_task writes it from a body without one
Task(id, role_id, prompt, trigger, enabled) ==
    [ id |-> id, role_id |-> role_id, ai_prompt |-> prompt, trigger_time |-> trigger,
      enabled |-> enabled, repeat |-> "" ]

\* the task with its repeat field set: "daily" or "weekly"
Repeating(task, repeat) == [task EXCEPT !.repeat = repeat]

\* trigger_time: empty, a text that datetime.fromisoformat rejects, or a time
NoTrigger == [ kind |-> "empty", t |-> NoTime ]
BadTrigger == [ kind |-> "malformed", t |-> NoTime ]
At(t) == [ kind |-> "time", t |-> t ]

\* a schedule_task that does not look at the clock
schedule_task_any_time(jobs, task, t) ==
    LET removed == remove_job(jobs, task_job_id(task.id))
    IN  IF task.trigger_time.kind # "time" THEN removed
        ELSE add_job(removed, Job(task_job_id(task.id), task.trigger_time.t, task, t))

\* schedule_task(task): the jobs afterwards
schedule_task(jobs, task, t) ==
    LET removed == remove_job(jobs, task_job_id(task.id))
    IN  IF task.trigger_time.kind = "empty" THEN removed
        ELSE IF task.trigger_time.kind = "malformed" THEN removed
        ELSE IF task.trigger_time.t < t THEN removed
        ELSE add_job(removed, Job(task_job_id(task.id), task.trigger_time.t, task, t))

NoTask == Task("", "", <<>>, NoTrigger, FALSE)

\* the scheduler before start_scheduler: no job, nothing fired; removed and
\* passed are history, the job ids the last call removed and the task the
\* last schedule_task was handed
NoScheduler ==
    [ running |-> FALSE, jobs |-> {}, tasks |-> <<>>,
      proactive |-> [r \in Roles |-> NoProactiveConfig],
      fired |-> <<>>, removed |-> {}, passed |-> NoTask ]

\* a _trigger_task that schedules a repeating task again, a day later
trigger_task_rearm(jobs, task, t) ==
    IF task.repeat = "" THEN jobs
    ELSE schedule_task(jobs, [task EXCEPT !.trigger_time = At(@.t + Day)], t)

\* _trigger_task(task): the jobs when it has run.  It hands the event to the
\* callback and calls nothing of the scheduler
trigger_task(jobs, task, t) == jobs

\* whether the awaited callback raised: handle_ai_event's HTTPException or
\* an error inside the handler
Raised(response) == response.http \in {404, 500}

\* _trigger_proactive after its await: the callback of a proactive job has
\* returned, so the role is scheduled again; a raised error skips that
AfterCallback(s, e, t) ==
    IF e.pc = "done" /\ e.origin = "proactive_job" /\ ~Raised(e.response)
    THEN { [s EXCEPT !.jobs = schedule_proactive_for_role(@, e.rid, load_role(e.rid).exists,
                                                           s.proactive[e.rid], m, t),
                     !.removed = {}, !.passed = NoTask] :
             m \in Intervals(s.proactive[e.rid]) }
    ELSE { s }

----------------------------------------------------------------------------
(* Inputs *)

Messages == { <<"h", "i">> }
AppendContents == { <<"x">> }
ContextLimits == { 0, DEFAULT_CONTEXT_LIMIT, get_memory_length }

NoList == [ none |-> TRUE, items |-> <<>> ]
List(items) == [ none |-> FALSE, items |-> items ]

\* MemoryUpdate bodies: core_memory and short_term are both optional
UpdateCores == { None, Str(<<"U">>) }
UpdateShortTerms == { NoList, List(<<>>), List(<< <<"a">> >>) }

ChatSummaryAnswers == { AiFail("timeout"), AiOk(<<"S", " ">>) }
SequentialAnswers == { AiFail("timeout"), AiOk(<<"N", "o", "n", "e", " ">>), AiOk(<<"B">>) }
GenerateAnswers == { AiFail("timeout"), AiOk(<<"A">>) }
CoreAnswers ==
    { AiFail("timeout"), AiOk(<<>>), AiOk(<<" ">>), AiOk(<<" ", "X", " ">>), AiOk(NONEED) }
EmotionAnswers == { AiFail("timeout"), AiOk(<<"H", "a", "p", "p", "y">>), AiOk(EXCITED) }

TickSeconds == { SEQUENTIAL_GAP_SECONDS - 1, SEQUENTIAL_GAP_SECONDS }

\* the store after n calls of append_memory at time 0
SeedDb(n) ==
    [ EmptyDb EXCEPT
        !.short_term = [i \in 1..n |-> Row("assistant", <<"m">> \o NumText(i), 0)],
        !.message_count_since_summary = n,
        !.updated_at = IF n = 0 THEN NoTime ELSE 0 ]

\* how many append_memory calls each role has received when the model starts
StartLens ==
    { [r1 |-> 0, r2 |-> 0], [r1 |-> 59, r2 |-> 1], [r1 |-> 60, r2 |-> 0] }

RoleProfile(id) == Profile(id, "model-" \o id, "url-" \o id, "key-" \o id, TRUE)

GlobalSettings ==
    [ ai_model |-> "model-global", ai_api_url |-> "url-global", ai_api_key |-> "key-global",
      ai_temperature |-> NoTemperature ]

\* main.load_config writes these defaults when settings.json is missing
DefaultSettings ==
    [ ai_model |-> "gpt-3.5-turbo", ai_api_url |-> "", ai_api_key |-> "",
      ai_temperature |-> NoTemperature ]

\* the profile.json files and settings.json of an installation
Deployments ==
    { \* every worker and r1 have a profile with model, URL and key; r2 has none
      [ profiles |-> [p \in ProfileIds |-> IF p = "r2" THEN NoProfile ELSE RoleProfile(p)],
        settings |-> GlobalSettings ],
      \* no worker has a profile; r2 is as create_role writes it from a body
      \* with only id and name: no persona, no system prompt, no AI fields
      [ profiles |-> [p \in ProfileIds |->
                        IF p = "r1" THEN RoleProfile(p)
                        ELSE IF p = "r2" THEN Profile(p, "", "", "", FALSE)
                        ELSE NoProfile],
        settings |-> GlobalSettings ],
      \* r1 has a persona but no AI fields, and settings.json has no key; the
      \* chat-summary worker lacks a key and the emotion worker is missing
      [ profiles |-> [p \in ProfileIds |->
                        IF p = "r1" THEN Profile(p, "", "", "", TRUE)
                        ELSE IF p = "r2" THEN NoProfile
                        ELSE IF p = WORKER_CHAT_SUMMARY THEN Profile(p, "model-w", "url-w", "", TRUE)
                        ELSE IF p = WORKER_EMOTION THEN NoProfile
                        ELSE RoleProfile(p)],
        settings |-> DefaultSettings ] }

----------------------------------------------------------------------------
(* The state machine *)

RECURSIVE AppendsAfter(_, _)
\* the append_short_term calls since the last update_core_memory, after calls
AppendsAfter(a, calls) ==
    IF calls = <<>> THEN a
    ELSE LET c == Head(calls)
             a1 == CASE c.op = "append_short_term" -> [a EXCEPT ![c.rid] = @ + 1]
                     [] c.op = "update_core_memory" -> [a EXCEPT ![c.rid] = 0]
                     [] OTHER -> a
         IN  AppendsAfter(a1, Tail(calls))

NoStep == [ op |-> "init", id |-> "", rid |-> "", calls |-> <<>>, read |-> FALSE ]

Init ==
    /\ \E n \in StartLens :
           /\ store = [r \in Roles |-> SeedDb(n[r])]
           /\ appends = [r \in Roles |-> n[r]]
    /\ \E d \in Deployments :
           /\ profiles = d.profiles
           /\ settings = d.settings
    /\ now = 0
    /\ ev = [id \in EvIds |-> IdleEvent]
    /\ last = NoStep
    /\ ops = 0
    /\ ticks = 0
    /\ sched = NoScheduler

\* the handler runs still suspended: a run that has returned is forgotten
\* when the next request arrives
Suspended == [id \in DOMAIN ev |-> IF ev[id].pc = "done" THEN IdleEvent ELSE ev[id]]

\* the step of event id that r describes, with the scheduler as the step's
\* job function has left it before the handler ran
CommitFrom(op, id, r, s) ==
    /\ store' = r.st
    /\ ev' = [Suspended EXCEPT ![id] = r.e]
    /\ last' = [ op |-> op, id |-> id, rid |-> r.e.rid, calls |-> r.calls, read |-> r.read ]
    /\ appends' = AppendsAfter(appends, r.calls)
    /\ sched' \in AfterCallback(s, r.e, now)
    /\ profiles' = r.files
    /\ UNCHANGED <<settings, now, ticks>>

\* the step of event id that r describes
Commit(op, id, r) == CommitFrom(op, id, r, sched)

\* a store endpoint that runs without suspension
CommitStore(op, rid, db, calls) ==
    /\ store' = [store EXCEPT ![rid] = db]
    /\ ev' = Suspended
    /\ last' = [ op |-> op, id |-> "", rid |-> rid, calls |-> calls, read |-> FALSE ]
    /\ appends' = AppendsAfter(appends, calls)
    /\ ops' = ops + 1
    /\ UNCHANGED <<profiles, settings, now, ticks, sched>>

Free(id) == ev[id].pc \in {"idle", "done"}

Running(id) == Res(ev[id], store, <<>>, FALSE)

NewEvent(kind, rid, msg) ==
    Res([IdleEvent EXCEPT !.kind = kind, !.rid = rid, !.role = profiles[rid], !.msg = msg,
                          !.before = Marks(store[rid]),
                          !.gap = should_generate_sequential_memory(store[rid], now)],
        store, <<>>, FALSE)

\* the clock
Tick(d) ==
    /\ ticks < MaxTicks
    /\ now' = now + d
    /\ ticks' = ticks + 1
    /\ last' = [NoStep EXCEPT !.op = "tick"]
    /\ ev' = Suspended
    /\ UNCHANGED <<store, profiles, settings, appends, ops, sched>>

\* POST /roles/{role_id}/memory/append
append_memory(rid, content) ==
    /\ ops < MaxOps
    /\ CommitStore("append_memory", rid,
                   append_short_term(store[rid], "assistant", content, APPEND_MEMORY_WINDOW, now),
                   <<Call("append_short_term", rid, Row("assistant", content, now))>>)

\* _normalize_short_term of a list of strings
normalize_short_term(items, t) == [i \in 1..Len(items) |-> Row("assistant", items[i], t)]

\* PUT /roles/{role_id}/memory
update_memory(rid, core, short) ==
    LET memory == load_memory(store[rid])
        m1 == IF core.none THEN memory ELSE [memory EXCEPT !.core_memory = core.text]
        m2 == IF short.none THEN m1
              ELSE [m1 EXCEPT !.short_term = normalize_short_term(short.items, now)]
    IN  /\ ops < MaxOps
        /\ CommitStore("update_memory", rid, save_memory(store[rid], m2, now),
                       <<Call("save_memory", rid, NoRow)>>)

\* clear_short_term(role_id), called on the service
ClearShortTerm(rid) ==
    /\ ops < MaxOps
    /\ CommitStore("clear_short_term", rid, clear_short_term(store[rid], now),
                   <<Call("clear_short_term", rid, NoRow)>>)

\* a dispatcher that looks the role up only after the handler has fetched
\* the context
RejectAfterContext(r) ==
    LET c == ContextBegin(r, get_memory_length)
    IN  Finish([c EXCEPT !.e.call = NoCall], HttpError(404))

\* handle_ai_event, lines 126-128: load_role gives None, HTTPException(404)
Reject(r) == Finish(r, HttpError(404))

\* POST /ai/event of a role without profile.json
EventNotFound(id, rid) ==
    /\ ops < MaxOps
    /\ Free(id)
    /\ ~profiles[rid].exists
    /\ ops' = ops + 1
    /\ Commit("not_found", id,
              Reject(Res([IdleEvent EXCEPT !.kind = "chat", !.rid = rid, !.before = Marks(store[rid])],
                         store, <<>>, FALSE)))

\* POST /ai/event, event_type chat
StartChat(id, rid, msg) ==
    /\ ops < MaxOps
    /\ Free(id)
    /\ profiles[rid].exists
    /\ ops' = ops + 1
    /\ Commit("chat", id, ChatBegin(NewEvent("chat", rid, msg), now))

\* POST /ai/event, event_type memory_summarization
StartSummarize(id, rid) ==
    LET r == SummaryBegin(NewEvent("summarize", rid, <<>>), WORKER_CORE, profiles[rid])
    IN  /\ ops < MaxOps
        /\ Free(id)
        /\ profiles[rid].exists
        /\ ops' = ops + 1
        /\ Commit("summarize", id,
                  IF r.e.gate = "await" THEN r
                  ELSE [r EXCEPT !.e.pc = "done", !.e.ret = r.e.new_core])

\* get_context_messages(role_id, limit), called on the service
StartContext(id, rid, limit) ==
    LET r == ContextBegin(NewEvent("context", rid, <<>>), limit)
    IN  /\ ops < MaxOps
        /\ Free(id)
        /\ ops' = ops + 1
        /\ Commit("context", id,
                  IF r.e.gate = "await" THEN r
                  ELSE [ContextRead(r) EXCEPT !.e.pc = "done"])

\* the chat summary's HTTP call returns
ResumeChatSummary(id, resp) ==
    LET r == ChatSummaryEnd(Running(id), resp, now)
    IN  /\ ev[id].pc = "chat_summary"
        /\ UNCHANGED ops
        /\ Commit("chat_summary", id, AfterChatSummary(r, now))

\* the bridging memory's HTTP call returns
ResumeSequential(id, resp) ==
    /\ ev[id].pc = "sequential"
    /\ UNCHANGED ops
    /\ Commit("sequential", id, ChatAfterSequential(SequentialEnd(Running(id), resp, now), now))

\* the generation's HTTP call returns
ResumeGenerate(id, resp, skip) ==
    /\ ev[id].pc = "generate"
    /\ UNCHANGED ops
    /\ Commit("generate", id, AfterGenerate(Running(id), resp, skip, now))

\* the core-memory summary's HTTP call returns
ResumeCore(id, resp, skip) ==
    LET r == SummaryEnd(Running(id), resp, now)
    IN  /\ ev[id].pc = "core"
        /\ UNCHANGED ops
        /\ Commit("core", id,
                  IF ev[id].kind = "chat" THEN ChatAfterSummary(r, skip)
                  ELSE [r EXCEPT !.e.pc = "done", !.e.ret = r.e.new_core])

\* the emotion classifier's HTTP call returns
ResumeEmotion(id, resp, has_files) ==
    /\ ev[id].pc = "emotion"
    /\ UNCHANGED ops
    /\ Commit("emotion", id, ChatReturn(Running(id), EmotionOf(resp, has_files)))

Next ==
    \/ \E d \in TickSeconds : Tick(d)
    \/ \E rid \in Roles, content \in AppendContents : append_memory(rid, content)
    \/ \E rid \in Roles, core \in UpdateCores, short \in UpdateShortTerms :
           update_memory(rid, core, short)
    \/ \E rid \in Roles : ClearShortTerm(rid)
    \/ \E id \in EvIds, rid \in Roles : EventNotFound(id, rid)
    \/ \E id \in EvIds, rid \in Roles, msg \in Messages : StartChat(id, rid, msg)
    \/ \E id \in EvIds, rid \in Roles : StartSummarize(id, rid)
    \/ \E id \in EvIds, rid \in Roles, limit \in ContextLimits : StartContext(id, rid, limit)
    \/ \E id \in EvIds, resp \in ChatSummaryAnswers : ResumeChatSummary(id, resp)
    \/ \E id \in EvIds, resp \in SequentialAnswers : ResumeSequential(id, resp)
    \/ \E id \in EvIds, resp \in GenerateAnswers, skip \in BOOLEAN : ResumeGenerate(id, resp, skip)
    \/ \E id \in EvIds, resp \in CoreAnswers, skip \in BOOLEAN : ResumeCore(id, resp, skip)
    \/ \E id \in EvIds, resp \in EmotionAnswers, has_files \in BOOLEAN :
           ResumeEmotion(id, resp, has_files)

Spec == Init /\ [][Next]_vars

----------------------------------------------------------------------------
(* The dispatcher with every event type *)

TaskPrompts == { <<"t">> }

\* a role with model and key of its own but no URL, under a settings.json
\* without URL and key: the URL of the call is the bare completions path
NoUrlDeployment ==
    [ profiles |-> [p \in ProfileIds |->
                      IF p = "r1" THEN Profile(p, "model-r1", "", "key-r1", TRUE)
                      ELSE NoProfile],
      settings |-> DefaultSettings ]

EventDeployments == Deployments \cup { NoUrlDeployment }

EventInit ==
    /\ \E n \in StartLens :
           /\ store = [r \in Roles |-> SeedDb(n[r])]
           /\ appends = [r \in Roles |-> n[r]]
    /\ \E d \in EventDeployments :
           /\ profiles = d.profiles
           /\ settings = d.settings
    /\ now = 0
    /\ ev = [id \in EvIds |-> IdleEvent]
    /\ last = NoStep
    /\ ops = 0
    /\ ticks = 0
    /\ sched = NoScheduler

\* POST /ai/event, event_type proactive
StartProactive(id, rid) ==
    /\ ops < MaxOps
    /\ Free(id)
    /\ profiles[rid].exists
    /\ ops' = ops + 1
    /\ Commit("proactive", id, ProactiveBegin(NewEvent("proactive", rid, <<>>), now))

\* POST /ai/event, event_type task
StartTask(id, rid, prompt) ==
    /\ ops < MaxOps
    /\ Free(id)
    /\ profiles[rid].exists
    /\ ops' = ops + 1
    /\ Commit("task", id, TaskBegin(NewEvent("task", rid, prompt), now))

\* POST /ai/event, event_type moment
StartMoment(id, rid) ==
    /\ ops < MaxOps
    /\ Free(id)
    /\ profiles[rid].exists
    /\ ops' = ops + 1
    /\ Commit("moment", id, MomentBegin(NewEvent("moment", rid, <<>>)))

\* POST /ai/event, event_type comment
StartComment(id, rid, skip) ==
    /\ ops < MaxOps
    /\ Free(id)
    /\ profiles[rid].exists
    /\ ops' = ops + 1
    /\ Commit("comment", id, CommentBegin(NewEvent("comment", rid, <<>>), skip))

EventNext ==
    \/ \E id \in EvIds, rid \in Roles : EventNotFound(id, rid)
    \/ \E id \in EvIds, rid \in Roles, msg \in Messages : StartChat(id, rid, msg)
    \/ \E id \in EvIds, rid \in Roles : StartProactive(id, rid)
    \/ \E id \in EvIds, rid \in Roles, prompt \in TaskPrompts : StartTask(id, rid, prompt)
    \/ \E id \in EvIds, rid \in Roles : StartMoment(id, rid)
    \/ \E id \in EvIds, rid \in Roles, skip \in BOOLEAN : StartComment(id, rid, skip)
    \/ \E id \in EvIds, rid \in Roles : StartSummarize(id, rid)
    \/ \E id \in EvIds, resp \in ChatSummaryAnswers : ResumeChatSummary(id, resp)
    \/ \E id \in EvIds, resp \in SequentialAnswers : ResumeSequential(id, resp)
    \/ \E id \in EvIds, resp \in GenerateAnswers, skip \in BOOLEAN : ResumeGenerate(id, resp, skip)
    \/ \E id \in EvIds, resp \in CoreAnswers, skip \in BOOLEAN : ResumeCore(id, resp, skip)
    \/ \E id \in EvIds, resp \in EmotionAnswers, has_files \in BOOLEAN :
           ResumeEmotion(id, resp, has_files)

EventSpec == EventInit /\ [][EventNext]_vars

----------------------------------------------------------------------------
(* Events running concurrently on one role *)

\* the requests in flight at a time
ConcIds == { "e1", "e2" }

\* the role all of them are for
ConcRole == "r1"

\* the message of the n-th event
ConcMessage(n) == <<"q">> \o NumText(n)

\* the gateway's answers to the generation of request id: a failure, or a
\* reply that quotes the message it was sent
Quote(msg) == <<"re: ">> \o msg
ConcGenerateAnswers(id) == { AiFail("timeout"), AiOk(Quote(ev[id].msg)) }

ConcEmotionAnswers == { AiFail("timeout"), AiOk(<<"H", "a", "p", "p", "y">>) }

ConcCoreAnswers == { AiFail("timeout"), AiOk(<<" ", "X", " ">>) }

\* every worker and r1 have a profile with model, URL and key
ConcDeployment ==
    [ profiles |-> [p \in ProfileIds |-> IF p = "r2" THEN NoProfile ELSE RoleProfile(p)],
      settings |-> GlobalSettings ]

\* the role's store when the events arrive: new, after one append, and
\* after 59 appends and a clear_short_term, which keeps the counter
ConcStores == { SeedDb(0), SeedDb(1), clear_short_term(SeedDb(get_memory_length - 1), 0) }

ConcInit ==
    /\ \E db \in ConcStores :
           /\ store = [r \in Roles |-> IF r = ConcRole THEN db ELSE SeedDb(0)]
           /\ appends = [r \in Roles |-> IF r = ConcRole THEN db.message_count_since_summary
                                          ELSE 0]
    /\ profiles = ConcDeployment.profiles
    /\ settings = ConcDeployment.settings
    /\ now = 0
    /\ ev = [id \in ConcIds |-> IdleEvent]
    /\ last = NoStep
    /\ ops = 0
    /\ ticks = 0
    /\ sched = NoScheduler

\* POST /ai/event, event_type chat, while other requests are suspended
ConcStartChat(id) ==
    /\ ops < MaxEvents
    /\ Free(id)
    /\ ops' = ops + 1
    /\ Commit("chat", id, ChatBegin(NewEvent("chat", ConcRole, ConcMessage(ops)), now))

\* POST /ai/event, event_type task, while other requests are suspended
ConcStartTask(id) ==
    /\ ops < MaxEvents
    /\ Free(id)
    /\ ops' = ops + 1
    /\ Commit("task", id, TaskBegin(NewEvent("task", ConcRole, ConcMessage(ops)), now))

\* the generation's HTTP call of request id returns
ConcResumeGenerate(id) ==
    \E resp \in ConcGenerateAnswers(id), skip \in BOOLEAN : ResumeGenerate(id, resp, skip)

ConcNext ==
    \/ \E id \in ConcIds : ConcStartChat(id)
    \/ \E id \in ConcIds : ConcStartTask(id)
    \/ \E id \in ConcIds, resp \in ChatSummaryAnswers : ResumeChatSummary(id, resp)
    \/ \E id \in ConcIds, resp \in SequentialAnswers : ResumeSequential(id, resp)
    \/ \E id \in ConcIds : ConcResumeGenerate(id)
    \/ \E id \in ConcIds, resp \in ConcCoreAnswers, skip \in BOOLEAN : ResumeCore(id, resp, skip)
    \/ \E id \in ConcIds, resp \in ConcEmotionAnswers : ResumeEmotion(id, resp, TRUE)

ConcSpec == ConcInit /\ [][ConcNext]_vars

----------------------------------------------------------------------------
(* The scheduler: start_scheduler, the job functions and their callbacks *)

\* the directories under data/roles, in iterdir order
RoleDirs == <<"r1", "r2">>

\* _init_proactive_jobs: schedule_proactive_for_role for every directory,
\* interval[r] being the random draw made for role r
RECURSIVE init_proactive_jobs(_, _, _, _, _)
init_proactive_jobs(jobs, dirs, configs, interval, t) ==
    IF dirs = <<>> THEN jobs
    ELSE init_proactive_jobs(
             schedule_proactive_for_role(jobs, Head(dirs), load_role(Head(dirs)).exists,
                                         configs[Head(dirs)], interval[Head(dirs)], t),
             Tail(dirs), configs, interval, t)

\* _init_scheduled_tasks: schedule_task for every enabled task of the file
RECURSIVE init_scheduled_tasks(_, _, _)
init_scheduled_tasks(jobs, tasks, t) ==
    IF tasks = <<>> THEN jobs
    ELSE init_scheduled_tasks(IF Head(tasks).enabled THEN schedule_task(jobs, Head(tasks), t)
                              ELSE jobs,
                              Tail(tasks), t)

\* _init_moment_jobs: the interval job, first due one interval from now
init_moment_jobs(jobs, t) ==
    add_job(jobs, Job(MOMENT_CHECK, t + MOMENT_CHECK_HOURS * Hour, "", t))

\* the hours at which the server is started: midday, 22:30 and 02:00
StartClocks == { 12 * Hour, 22 * Hour + 30 * Minute, 2 * Hour }

\* scheduled.json when the server starts at t: an enabled daily task an hour
\* ahead, an enabled task a minute overdue, a disabled task an hour ahead
TaskFile(t) ==
    << Repeating(Task("t1", "r1", <<"t">>, At(t + Hour), TRUE), "daily"),
       Task("t2", "r1", <<"t">>, At(t - Minute), TRUE),
       Task("t3", "r1", <<"t">>, At(t + Hour), FALSE) >>

\* the task dicts that callers hand to schedule_task at time t
TaskInputs(t) ==
    { Task("t1", "r1", <<"t">>, trigger, TRUE) :
        trigger \in { NoTrigger, BadTrigger, At(t - Minute), At(t), At(t + Hour) } }

\* r1 is a full role; r2 is as create_role writes it without persona,
\* system prompt and AI fields; no worker has a profile
SchedProfiles ==
    [p \in ProfileIds |->
        IF p = "r1" THEN RoleProfile(p)
        ELSE IF p = "r2" THEN Profile(p, "", "", "", FALSE)
        ELSE NoProfile]

\* r1 alone, every other profile.json missing
SchedProfilesOne == [p \in ProfileIds |-> IF p = "r1" THEN RoleProfile(p) ELSE NoProfile]

\* the installations: both roles proactive with the default quiet hours;
\* r1 proactive with quiet hours 13 to 15 and r2 without profile; nobody
\* proactive
SchedDeployments ==
    { [ profiles |-> SchedProfiles,
        proactive |-> [r \in Roles |->
                         ProactiveConfig(TRUE, DEFAULT_MIN_INTERVAL, DEFAULT_MAX_INTERVAL,
                                         DEFAULT_QUIET_START, DEFAULT_QUIET_END)] ],
      [ profiles |-> SchedProfilesOne,
        proactive |-> [r \in Roles |->
                         ProactiveConfig(TRUE, DEFAULT_MIN_INTERVAL, DEFAULT_MAX_INTERVAL,
                                         13, 15)] ],
      [ profiles |-> SchedProfiles,
        proactive |-> [r \in Roles |-> NoProactiveConfig] ] }

SchedInit ==
    /\ store = [r \in Roles |-> SeedDb(1)]
    /\ appends = [r \in Roles |-> 1]
    /\ settings = GlobalSettings
    /\ now \in StartClocks
    /\ \E d \in SchedDeployments :
           /\ profiles = d.profiles
           /\ sched = [NoScheduler EXCEPT !.tasks = TaskFile(now), !.proactive = d.proactive]
    /\ ev = [id \in EvIds |-> IdleEvent]
    /\ last = NoStep
    /\ ops = 0
    /\ ticks = 0

\* a step of the scheduler that runs no handler
SchedStep(op, key, s) ==
    /\ sched' = s
    /\ last' = [NoStep EXCEPT !.op = op, !.rid = key]
    /\ ev' = Suspended
    /\ UNCHANGED <<store, profiles, settings, now, appends>>

\* start_scheduler, from the lifespan of main.py
StartScheduler(interval) ==
    LET j1 == init_proactive_jobs(sched.jobs, RoleDirs, sched.proactive, interval, now)
        j2 == init_scheduled_tasks(j1, sched.tasks, now)
        j3 == init_moment_jobs(j2, now)
    IN  /\ ~sched.running
        /\ \A r \in Roles : interval[r] \in Intervals(sched.proactive[r])
        /\ SchedStep("start_scheduler", "", [sched EXCEPT !.running = TRUE, !.jobs = j3, !.removed = {}, !.passed = NoTask])
        /\ UNCHANGED <<ops, ticks>>

\* schedule_proactive_for_role(role_id), called on the service
ScheduleProactive(rid, interval_minutes) ==
    /\ sched.running
    /\ ops < MaxCalls
    /\ ops' = ops + 1
    /\ UNCHANGED ticks
    /\ SchedStep("schedule_proactive", rid,
                 [sched EXCEPT
                    !.jobs = schedule_proactive_for_role(@, rid, load_role(rid).exists,
                                                         sched.proactive[rid], interval_minutes, now),
                    !.removed = { j.id : j \in get_job(sched.jobs, proactive_job_id(rid)) },
                    !.passed = NoTask])

\* schedule_task(task), called on the service
ScheduleTask(task) ==
    /\ sched.running
    /\ ops < MaxCalls
    /\ ops' = ops + 1
    /\ UNCHANGED ticks
    /\ SchedStep("schedule_task", task.id,
                 [sched EXCEPT
                    !.jobs = schedule_task(@, task, now),
                    !.removed = { j.id : j \in get_job(sched.jobs, task_job_id(task.id)) },
                    !.passed = task])

\* time passes, to the run date of a pending job or by an hour
Advance(t) ==
    /\ ticks < MaxAdvances
    /\ t > now
    /\ now' = t
    /\ ticks' = ticks + 1
    /\ last' = [NoStep EXCEPT !.op = "tick"]
    /\ ev' = Suspended
    /\ UNCHANGED <<store, profiles, settings, appends, ops, sched>>

\* the run dates still ahead
Ahead == { j.run_date : j \in sched.jobs } \ 0..now

\* the next run date when a job is pending, an hour from now when none is
AdvanceTimes ==
    IF Ahead = {} THEN { now + Hour }
    ELSE { t \in Ahead : \A u \in Ahead : t <= u }

\* what the scheduler records when it runs a job
Fired(job, t) == [ id |-> job.id, at |-> t, job |-> job ]

Due(job) ==
    /\ sched.running
    /\ job \in sched.jobs
    /\ job.run_date <= now
    /\ Len(sched.fired) < MaxFirings

\* main.handle_ai_event as the scheduler's callback: the dispatcher's lookup
\* of the role, then the handler
Callback(origin, kind, rid, content) ==
    LET e == [NewEvent(kind, rid, content) EXCEPT !.e.origin = origin]
    IN  IF ~load_role(rid).exists THEN Reject(e)
        ELSE CASE kind = "proactive" -> ProactiveBegin(e, now)
               [] kind = "task" -> TaskBegin(e, now)
               [] OTHER -> MomentBegin(e)

\* the proactive job of a role runs: _trigger_proactive up to its await or,
\* when the callback ends at once, to its end
FireProactive(id, job) ==
    /\ Due(job)
    /\ job.id[1] = "proactive"
    /\ Free(id)
    /\ UNCHANGED ops
    /\ CommitFrom("proactive", id, Callback("proactive_job", "proactive", job.arg, <<>>),
                  [sched EXCEPT !.jobs = @ \ { job }, !.fired = Append(@, Fired(job, now)),
                                !.removed = {}, !.passed = NoTask])

\* the event of _trigger_task, lines 182-187, handed to the callback
task_event(task) ==
    [Callback("task_job", "task", task.role_id, task.ai_prompt) EXCEPT !.e.context = task.id]

\* the job of a task runs: the date trigger has no later run date, so the
\* scheduler drops the job, and _trigger_task awaits the callback
FireTask(id, job) ==
    /\ Due(job)
    /\ job.id[1] = "task"
    /\ Free(id)
    /\ UNCHANGED ops
    /\ CommitFrom("task", id, task_event(job.arg),
                  [sched EXCEPT !.jobs = trigger_task(@ \ { job }, job.arg, now),
                                !.fired = Append(@, Fired(job, now)),
                                !.removed = {}, !.passed = NoTask])

\* the interval job runs: _check_moment_posts; post is the 30% draw and rid
\* the role random.choice picks
FireMomentCheck(id, job, post, rid) ==
    LET s == [sched EXCEPT
                !.jobs = add_job(@, [job EXCEPT !.run_date = @ + MOMENT_CHECK_HOURS * Hour]),
                !.fired = Append(@, Fired(job, now)),
                !.removed = {}, !.passed = NoTask]
    IN  /\ Due(job)
        /\ job.id = MOMENT_CHECK
        /\ Free(id)
        /\ load_role(rid).exists
        /\ UNCHANGED <<ops, ticks>>
        /\ IF post
           THEN CommitFrom("moment", id, Callback("moment_job", "moment", rid, <<>>), s)
           ELSE SchedStep("moment_check", "", s)

SchedNext ==
    \/ \E interval \in [Roles -> {DEFAULT_MIN_INTERVAL, DEFAULT_MAX_INTERVAL}] :
           StartScheduler(interval)
    \/ \E rid \in Roles, m \in {DEFAULT_MIN_INTERVAL, DEFAULT_MAX_INTERVAL} :
           ScheduleProactive(rid, m)
    \/ \E task \in TaskInputs(now) : ScheduleTask(task)
    \/ \E t \in AdvanceTimes : Advance(t)
    \/ \E id \in EvIds, job \in sched.jobs : FireProactive(id, job)
    \/ \E id \in EvIds, job \in sched.jobs : FireTask(id, job)
    \/ \E id \in EvIds, job \in sched.jobs, post \in BOOLEAN, rid \in Roles :
           FireMomentCheck(id, job, post, rid)
    \/ \E id \in EvIds, resp \in GenerateAnswers : ResumeGenerate(id, resp, FALSE)

SchedSpec == SchedInit /\ [][SchedNext]_vars

----------------------------------------------------------------------------
(* The scheduler left to run: the tasks of scheduled.json *)

\* the run dates of the pending task jobs still ahead
TaskTimes == { j.run_date : j \in { k \in sched.jobs : k.id[1] = "task" } } \ 0..now

\* time reaches the run date of a pending task job
AdvanceToTask(t) ==
    /\ t \in TaskTimes
    /\ now' = t
    /\ last' = [NoStep EXCEPT !.op = "tick"]
    /\ ev' = Suspended
    /\ UNCHANGED <<store, profiles, settings, appends, ops, ticks, sched>>

TaskStart ==
    \E interval \in [Roles -> {DEFAULT_MIN_INTERVAL, DEFAULT_MAX_INTERVAL}] :
        StartScheduler(interval)

TaskAdvance == \E t \in TaskTimes : AdvanceToTask(t)

TaskFire == \E id \in EvIds, job \in sched.jobs : FireTask(id, job)

TaskNext ==
    \/ TaskStart
    \/ \E t \in AdvanceTimes : Advance(t)
    \/ TaskAdvance
    \/ TaskFire
    \/ \E id \in EvIds, resp \in GenerateAnswers : ResumeGenerate(id, resp, FALSE)

\* the lifespan of main.py starts the scheduler, the clock goes on, and the
\* running scheduler runs a job whose run date has come
TaskSpec ==
    /\ SchedInit
    /\ [][TaskNext]_vars
    /\ WF_vars(TaskStart)
    /\ WF_vars(TaskAdvance)
    /\ WF_vars(TaskFire)

----------------------------------------------------------------------------
(* Role directories that hold a memory.json: every store function opens   *)
(* the store through _get_connection                                       *)

\* the file get_role_dir writes into a directory without one
CreatedJson == Json(<<>>, NoTime, 0, NoTime, <<>>)

\* a file an earlier version left: an entry without role and timestamp, and
\* a user entry stamped at time 0
LegacyJson ==
    Json(<<"K">>, NoTime, 2, NoTime,
         << Row("", <<"L", "1">>, NoTime), Row("user", <<"L", "2">>, 0) >>)

\* the stores of a role when the server starts: new beside a created file,
\* new beside a legacy file, holding an entry beside a legacy file, and new
\* without a file
LegacyStores ==
    { [EmptyDb EXCEPT !.memory_json = CreatedJson],
      [EmptyDb EXCEPT !.memory_json = LegacyJson],
      [SeedDb(1) EXCEPT !.memory_json = LegacyJson],
      EmptyDb }

LegacyInit ==
    /\ store \in [Roles -> LegacyStores]
    /\ store["r2"].memory_json = LegacyJson
    /\ appends = [r \in Roles |-> store[r].message_count_since_summary]
    /\ profiles = ConcDeployment.profiles
    /\ settings = ConcDeployment.settings
    /\ now = 1
    /\ ev = [id \in EvIds |-> IdleEvent]
    /\ last = NoStep
    /\ ops = 0
    /\ ticks = 0
    /\ sched = NoScheduler

\* GET /roles/{role_id}/memory: load_memory
LegacyGetMemory(rid) ==
    /\ ops < MaxAccesses
    /\ CommitStore("load_memory", rid, get_connection(store[rid], now), <<>>)

\* POST /roles/{role_id}/memory/append: append_short_term, then load_memory
LegacyAppendMemory(rid, content) ==
    LET db == append_short_term(get_connection(store[rid], now), "assistant", content,
                                APPEND_MEMORY_WINDOW, now)
    IN  /\ ops < MaxAccesses
        /\ CommitStore("append_memory", rid, get_connection(db, now),
                       <<Call("append_short_term", rid, Row("assistant", content, now))>>)

\* PUT /roles/{role_id}/memory: load_memory, then save_memory
LegacyUpdateMemory(rid, core, short) ==
    LET db == get_connection(store[rid], now)
        memory == load_memory(db)
        m1 == IF core.none THEN memory ELSE [memory EXCEPT !.core_memory = core.text]
        m2 == IF short.none THEN m1
              ELSE [m1 EXCEPT !.short_term = normalize_short_term(short.items, now)]
    IN  /\ ops < MaxAccesses
        /\ CommitStore("update_memory", rid, save_memory(get_connection(db, now), m2, now),
                       <<Call("save_memory", rid, NoRow)>>)

\* clear_short_term(role_id), called on the service
LegacyClearShortTerm(rid) ==
    /\ ops < MaxAccesses
    /\ CommitStore("clear_short_term", rid,
                   clear_short_term(get_connection(store[rid], now), now),
                   <<Call("clear_short_term", rid, NoRow)>>)

\* update_core_memory(role_id, core_memory), called on the service
LegacyUpdateCore(rid, core) ==
    /\ ops < MaxAccesses
    /\ CommitStore("update_core_memory", rid,
                   update_core_memory(get_connection(store[rid], now), core, now),
                   <<Call("update_core_memory", rid, NoRow)>>)

LegacyNext ==
    \/ Tick(SEQUENTIAL_GAP_SECONDS)
    \/ \E rid \in Roles : LegacyGetMemory(rid)
    \/ \E rid \in Roles, content \in AppendContents : LegacyAppendMemory(rid, content)
    \/ \E rid \in Roles : LegacyUpdateMemory(rid, None, List(<< <<"a">> >>))
    \/ \E rid \in Roles : LegacyClearShortTerm(rid)
    \/ \E rid \in Roles : LegacyUpdateCore(rid, <<"U">>)

LegacySpec == LegacyInit /\ [][LegacyNext]_vars

----------------------------------------------------------------------------
(* Chat events of a role whose profile says "women": handle_chat is the    *)
(* one caller of _if_in_menstruation                                       *)

CycleRole == "r1"

\* the day the behaviour starts on: before the date create_role writes (a
\* clock set back), on the last day of its period, and later
CycleDays ==
    { CREATED_PERIOD_START - 3, CREATED_PERIOD_START + CREATED_PERIOD_LENGTH - 1,
      CREATED_PERIOD_START + 40 }

\* the menstruation_cycle of profile.json with the last_period_start row of
\* memory_meta: the cycle as create_role writes it, one without lengths,
\* a short one, and one with a period longer than the cycle; the row
\* absent, unreadable, or a date
CycleInputs ==
    { <<CreatedCycle, NoDate>>,
      <<CreatedCycle, OnDay(CREATED_PERIOD_START - 40)>>,
      <<Cycle(0, 0, OnDay(CREATED_PERIOD_START)), NoDate>>,
      <<Cycle(6, 2, OnDay(CREATED_PERIOD_START)), NoDate>>,
      <<Cycle(6, 2, OnDay(CREATED_PERIOD_START)), BadDate>>,
      <<Cycle(6, 7, BadDate), NoDate>> }

\* the two roles have a profile with model, URL and key, no worker has one
CycleProfiles(cycle) ==
    [p \in ProfileIds |->
        IF p = CycleRole
        THEN [RoleProfile(p) EXCEPT !.gender = "women", !.menstruation_cycle = cycle]
        ELSE IF p \in Roles THEN RoleProfile(p) ELSE NoProfile]

CycleInit ==
    /\ \E input \in CycleInputs :
           /\ profiles = CycleProfiles(input[1])
           /\ store = [r \in Roles |->
                          IF r = CycleRole
                          THEN [EmptyDb EXCEPT !.last_period_start = input[2]]
                          ELSE EmptyDb]
    /\ appends = [r \in Roles |-> 0]
    /\ settings = GlobalSettings
    /\ \E d \in CycleDays : now = d * Day
    /\ ev = [id \in EvIds |-> IdleEvent]
    /\ last = NoStep
    /\ ops = 0
    /\ ticks = 0
    /\ sched = NoScheduler

\* POST /ai/event, event_type chat
CycleStartChat(id, rid, msg) ==
    /\ ops < MaxChats
    /\ Free(id)
    /\ profiles[rid].exists
    /\ ops' = ops + 1
    /\ Commit("chat", id, ChatBegin(NewEvent("chat", rid, msg), now))

\* handle_chat, lines 184-210: the cycle check with its draws, then the
\* prompt and generate_with_role up to its HTTP call
ResumeCycle(id) ==
    /\ ev[id].pc = "cycle"
    /\ UNCHANGED ops
    /\ \E o \in if_in_menstruation(profiles[ev[id].rid], store[ev[id].rid], now) :
           Commit("cycle", id, ChatAfterCycle(Running(id), o, now))

CycleNext ==
    \/ Tick(Day)
    \/ \E id \in EvIds, rid \in Roles, msg \in Messages : CycleStartChat(id, rid, msg)
    \/ \E id \in EvIds : ResumeCycle(id)
    \/ \E id \in EvIds, resp \in GenerateAnswers : ResumeGenerate(id, resp, FALSE)

CycleSpec == CycleInit /\ [][CycleNext]_vars

----------------------------------------------------------------------------
(* Chat events whose bridging memory gets every kind of answer *)

\* the gateway's answers to the bridging memory's call: a failure, an empty
\* content, only whitespace, "none" in mixed case between spaces, and a
\* narrative with and without whitespace around it
BridgeAnswers ==
    { AiFail("timeout"), AiOk(<<>>), AiOk(<<" ">>),
      AiOk(<<" ", "n", "O", "n", "E", " ">>), AiOk(<<"B">>), AiOk(<<" ", "B", " ">>) }

BridgeNext ==
    \/ \E d \in TickSeconds : Tick(d)
    \/ \E id \in EvIds, rid \in Roles, msg \in Messages : StartChat(id, rid, msg)
    \/ \E id \in EvIds, resp \in ChatSummaryAnswers : ResumeChatSummary(id, resp)
    \/ \E id \in EvIds, resp \in BridgeAnswers : ResumeSequential(id, resp)
    \/ \E id \in EvIds, resp \in GenerateAnswers, skip \in BOOLEAN : ResumeGenerate(id, resp, skip)
    \/ \E id \in EvIds, resp \in ConcCoreAnswers, skip \in BOOLEAN : ResumeCore(id, resp, skip)
    \/ \E id \in EvIds, resp \in ConcEmotionAnswers : ResumeEmotion(id, resp, TRUE)

BridgeSpec == Init /\ [][BridgeNext]_vars

----------------------------------------------------------------------------
(* The AI configuration of a role: which of the profile field, the        *)
(* profile's metadata and settings.json carry a model, a URL, a key and a  *)
(* temperature                                                             *)

ConfigRole == "r1"

\* which levels carry the model, the URL and the key
ConfigLevels == [ role : BOOLEAN, metadata : BOOLEAN, global : BOOLEAN ]

\* the temperature a level carries: none, 0, or a value of its own
RoleTemperatures == { NoTemperature, 0, 5 }
MetadataTemperatures == { NoTemperature, 0, 6 }
GlobalTemperatures == { NoTemperature, 0, 4 }

ConfigProfile(l, t_role, t_metadata) ==
    [ Profile(ConfigRole,
              IF l.role THEN "model-r1" ELSE "",
              IF l.role THEN "url-r1" ELSE "",
              IF l.role THEN "key-r1" ELSE "", TRUE)
      EXCEPT !.ai_temperature = t_role,
             !.metadata = IF l.metadata
                          THEN Metadata("model-meta", "url-meta", "key-meta", t_metadata)
                          ELSE Metadata("", "", "", t_metadata) ]

ConfigSettings(l, t_global) ==
    [ (IF l.global THEN GlobalSettings ELSE DefaultSettings)
      EXCEPT !.ai_temperature = t_global ]

ConfigInit ==
    /\ store = [r \in Roles |-> SeedDb(0)]
    /\ appends = [r \in Roles |-> 0]
    /\ \E l \in ConfigLevels, t_role \in RoleTemperatures,
          t_metadata \in MetadataTemperatures, t_global \in GlobalTemperatures :
           /\ profiles = [p \in ProfileIds |->
                            IF p = ConfigRole THEN ConfigProfile(l, t_role, t_metadata)
                            ELSE NoProfile]
           /\ settings = ConfigSettings(l, t_global)
    /\ now = 0
    /\ ev = [id \in EvIds |-> IdleEvent]
    /\ last = NoStep
    /\ ops = 0
    /\ ticks = 0
    /\ sched = NoScheduler

ConfigNext ==
    \/ \E id \in EvIds, msg \in Messages : StartChat(id, ConfigRole, msg)
    \/ \E id \in EvIds : StartProactive(id, ConfigRole)
    \/ \E id \in EvIds, prompt \in TaskPrompts : StartTask(id, ConfigRole, prompt)
    \/ \E id \in EvIds : StartMoment(id, ConfigRole)
    \/ \E id \in EvIds : StartComment(id, ConfigRole, FALSE)
    \/ \E id \in EvIds, resp \in GenerateAnswers : ResumeGenerate(id, resp, TRUE)

ConfigSpec == ConfigInit /\ [][ConfigNext]_vars

----------------------------------------------------------------------------
(* Context requests of one role in a row, with no other memory operation *)

WindowRole == "r1"

\* the entries of the log and the block stored when the requests begin
WindowSeeds ==
    { <<0, NO_BLOCK>>, <<1, NO_BLOCK>>, <<58, 0>>, <<59, NO_BLOCK>>, <<59, 0>>,
      <<60, NO_BLOCK>>, <<60, 0>>, <<60, 60>>, <<61, 0>>, <<61, 60>> }

WindowInit ==
    /\ \E s \in WindowSeeds :
           /\ store = [r \in Roles |->
                          IF r = WindowRole
                          THEN [SeedDb(s[1]) EXCEPT !.last_context_block_start = s[2]]
                          ELSE SeedDb(0)]
           /\ appends = [r \in Roles |-> IF r = WindowRole THEN s[1] ELSE 0]
    /\ \E d \in Deployments :
           /\ profiles = d.profiles
           /\ settings = d.settings
    /\ now = 0
    /\ ev = [id \in EvIds |-> IdleEvent]
    /\ last = NoStep
    /\ ops = 0
    /\ ticks = 0
    /\ sched = NoScheduler

\* GET /roles/{role_id}/context with the limit of handle_chat
RequestContext(id, rid) ==
    LET r == ContextBegin(NewEvent("context", rid, <<>>), get_memory_length)
    IN  /\ ops < MaxRequests
        /\ Free(id)
        /\ ops' = ops + 1
        /\ Commit("context", id,
                  IF r.e.gate = "await" THEN r
                  ELSE [ContextRead(r) EXCEPT !.e.pc = "done"])

WindowNext ==
    \/ \E id \in EvIds : RequestContext(id, WindowRole)
    \/ \E id \in EvIds, resp \in ChatSummaryAnswers : ResumeChatSummary(id, resp)

WindowSpec == WindowInit /\ [][WindowNext]_vars

----------------------------------------------------------------------------
(* The task endpoints of routers/tasks.py while the scheduler runs *)

\* toggle_task(task_id): the tasks of scheduled.json afterwards
toggle_task(tasks, task_id) ==
    [i \in 1..Len(tasks) |->
        IF tasks[i].id = task_id /\ \A j \in 1..(i - 1) : tasks[j].id # task_id
        THEN [tasks[i] EXCEPT !.enabled = ~@]
        ELSE tasks[i]]

\* delete_task(task_id): the tasks of scheduled.json afterwards
delete_task(tasks, task_id) == SelectSeq(tasks, LAMBDA t : t.id # task_id)

TaskIds == { "t1", "t3" }

\* PUT /tasks/{task_id}/toggle
ToggleTask(task_id) ==
    /\ ops < MaxCalls
    /\ ops' = ops + 1
    /\ UNCHANGED ticks
    /\ SchedStep("toggle_task", task_id,
                 [sched EXCEPT !.tasks = toggle_task(@, task_id),
                               !.removed = {}, !.passed = NoTask])

\* DELETE /tasks/{task_id}
DeleteTask(task_id) ==
    /\ ops < MaxCalls
    /\ ops' = ops + 1
    /\ UNCHANGED ticks
    /\ SchedStep("delete_task", task_id,
                 [sched EXCEPT !.tasks = delete_task(@, task_id),
                               !.removed = {}, !.passed = NoTask])

CrudNext ==
    \/ TaskStart
    \/ \E task_id \in TaskIds : ToggleTask(task_id)
    \/ \E task_id \in TaskIds : DeleteTask(task_id)
    \/ TaskAdvance
    \/ TaskFire
    \/ \E id \in EvIds, resp \in GenerateAnswers : ResumeGenerate(id, resp, FALSE)

CrudSpec == SchedInit /\ [][CrudNext]_vars

----------------------------------------------------------------------------
(* Properties of the memory store *)

\* the short-term log of a role as load_memory returns it
Log(st, rid) == load_memory(st[rid]).short_term

IsPrefix(a, b) == Len(a) <= Len(b) /\ SubSeq(b, 1, Len(a)) = a

\* the rows that the append_short_term calls among calls hand to role rid
AppendedRows(rid, calls) ==
    LET mine == SelectSeq(calls, LAMBDA c : c.op = "append_short_term" /\ c.rid = rid)
    IN  [i \in 1..Len(mine) |-> mine[i].row]

OnlyAppends(calls) ==
    calls # <<>> /\ \A i \in 1..Len(calls) : calls[i].op = "append_short_term"

\* the last store call of the step wrote role rid through operation op
EndsWith(calls, op, rid) ==
    calls # <<>> /\ calls[Len(calls)].op = op /\ calls[Len(calls)].rid = rid

C3_OnlyAppendOrClear ==
    [][ \A rid \in Roles :
            \/ IsPrefix(Log(store, rid), Log(store', rid))
            \/ Log(store', rid) = <<>> ]_vars

\* the log that PUT /roles/{role_id}/memory writes for a body
ReplacedLog(st, rid, short, t) ==
    IF short.none THEN Log(st, rid) ELSE normalize_short_term(short.items, t)

\* C3 as the code has it: every step other than update_memory changes every
\* role's log only by appending at the end or by clearing it entirely;
\* update_memory, through save_memory, replaces the role's log with the
\* short_term list of its body, and leaves it as it is when the body has none.
C3_AppendClearOrReplace ==
    [][ \A rid \in Roles :
            \/ store'[rid].short_term = store[rid].short_term
            \/ IsPrefix(Log(store, rid), Log(store', rid))
            \/ Log(store', rid) = <<>>
            \/ /\ last'.op = "update_memory"
               /\ last'.rid = rid
               /\ \E short \in UpdateShortTerms :
                      Log(store', rid) = ReplacedLog(store, rid, short, now) ]_vars

\* update_memory has replaced a log of 59 or more entries with one entry
C3_LogReplaced ==
    /\ last.op = "update_memory"
    /\ appends[last.rid] >= get_memory_length - 1
    /\ Len(Log(store, last.rid)) = 1

----------------------------------------------------------------------------
(* Properties of the migration from memory.json *)

\* the store holds no data: no key in memory_meta and no row in short_term
HoldsNoData(db) == ~has_meta(db) /\ ~has_short(db)

\* the entries of a memory.json as load_memory returns them once imported
\* at time t
JsonEntries(data, t) ==
    [i \in 1..Len(data.short_term) |->
        Row(RoleOrAssistant(data.short_term[i].role), data.short_term[i].content,
            TimestampOrNow(data.short_term[i].timestamp, t))]

\* the rows of the store whose content is the content of entry k of the
\* role's memory.json
CopiesOf(db, k) ==
    { i \in 1..Len(db.short_term) :
        db.short_term[i].content = db.memory_json.short_term[k].content }

\* C22: a store access imports memory.json exactly when the file exists and
\* the store holds no data, which makes it the first access: the marker is
\* set, and a load_memory then returns the file's core memory, counter and
\* entries in the file's order (an append adds its entry behind them and
\* counts it).  Any other step leaves the marker as it is and adds no copy
\* of an entry of the file, whether the log was cleared or not; no entry of
\* the file is ever in the log twice, and a step for one role leaves the
\* other role's store alone.
C22_MigratedOnce ==
    [][ \A rid \in Roles :
            LET db == store[rid]
                after == store'[rid]
                data == db.memory_json
                accessed == last'.rid = rid /\ last'.op # "tick"
                first == accessed /\ data.exists /\ HoldsNoData(db)
            IN  /\ ~accessed => after = db
                /\ after.memory_json = data
                /\ first =>
                       /\ after.migrated_from_json = now
                       /\ last'.op = "load_memory" =>
                              /\ after.core_memory = data.core_memory
                              /\ after.message_count_since_summary = data.message_count_since_summary
                              /\ Log(store', rid) = JsonEntries(data, now)
                       /\ last'.op = "append_memory" =>
                              /\ after.core_memory = data.core_memory
                              /\ after.message_count_since_summary =
                                     data.message_count_since_summary + 1
                              /\ SubSeq(Log(store', rid), 1, Len(data.short_term)) =
                                     JsonEntries(data, now)
                              /\ Len(after.short_term) = Len(data.short_term) + 1
                /\ ~first =>
                       /\ after.migrated_from_json = db.migrated_from_json
                       /\ \A k \in 1..Len(data.short_term) :
                              Cardinality(CopiesOf(after, k)) <= Cardinality(CopiesOf(db, k))
                /\ \A k \in 1..Len(data.short_term) : Cardinality(CopiesOf(after, k)) <= 1
      ]_vars

\* a role whose memory.json holds entries was migrated, its log was cleared
\* at a later time, and a load_memory after that found the log empty
C22_ClearedLogStayedEmpty ==
    \E rid \in Roles :
        /\ store[rid].memory_json.short_term # <<>>
        /\ store[rid].migrated_from_json # NoTime
        /\ store[rid].updated_at > store[rid].migrated_from_json
        /\ last.op = "load_memory"
        /\ last.rid = rid
        /\ store[rid].short_term = <<>>

\* what the next store function finds: the store behind _get_connection
Opened(st, rid) == get_connection(st[rid], now)

\* C23: clear_short_term(role) leaves the role's log empty and its core
\* memory, last_summarized_at and counter as a caller finds them before
\* the call; the store of every other role is left as it is.
C23_ClearKeepsCore ==
    [][ \A rid \in Roles :
            (last'.op = "clear_short_term" /\ last'.rid = rid) =>
                /\ store'[rid].short_term = <<>>
                /\ Log(store', rid) = <<>>
                /\ get_core_memory(store'[rid]) = get_core_memory(Opened(store, rid))
                /\ load_memory(store'[rid]).last_summarized_at =
                       load_memory(Opened(store, rid)).last_summarized_at
                /\ load_memory(store'[rid]).message_count_since_summary =
                       load_memory(Opened(store, rid)).message_count_since_summary
                /\ \A other \in Roles \ {rid} : store'[other] = store[other]
      ]_vars

\* a role with a core memory, a summary time and an entry appended since
\* was cleared: its log is empty and counts one message, while another
\* role's log holds entries
C23_ClearedAfterSummary ==
    \E rid \in Roles :
        /\ last.op = "clear_short_term"
        /\ last.rid = rid
        /\ store[rid].core_memory # <<>>
        /\ store[rid].last_summarized_at # NoTime
        /\ store[rid].message_count_since_summary = 1
        /\ store[rid].short_term = <<>>
        /\ \E other \in Roles \ {rid} : store[other].short_term # <<>>

----------------------------------------------------------------------------
(* Properties of the context window and the two gates *)

Max(a, b) == IF a >= b THEN a ELSE b

\* the entries of a role's log at the 0-based indexes [from, to), as the
\* context messages {role, content}
Entries(st, rid, from, to) ==
    [i \in 1..(to - from) |->
        [role |-> Log(st, rid)[from + i].role, content |-> Log(st, rid)[from + i].content]]

\* the step just taken read the context rows of request id
ContextServed(id) == last.read /\ last.id = id

\* C4 as stated: with N >= 1 entries when get_context_messages(role, limit)
\* is called, limit > 0, block_start is ((N-1)//limit)*limit, a multiple of
\* limit below N, and the returned context is the entries
\* [block_start, min(block_start+limit, N)), of size min(limit, N - block_start).
C4_BlockOfRequestCount ==
    \A id \in EvIds :
        ContextServed(id) =>
            LET e == ev[id]
                N == e.total
            IN  /\ e.block_start = ((N - 1) \div e.limit) * e.limit
                /\ e.block_start % e.limit = 0
                /\ e.block_start < N
                /\ e.history = Entries(store, e.rid, e.block_start, Min(e.block_start + e.limit, N))
                /\ Len(e.history) = Min(e.limit, N - e.block_start)

\* C4 as the code has it: block_start is computed from the N entries present
\* when the request starts; the rows are read after the chat summary that a
\* block change triggers, so the context is the entries
\* [block_start, min(block_start+limit, M)) of the log of M entries present
\* at the read, of size max(0, min(limit, M - block_start)).
C4_BlockOfReadCount ==
    \A id \in EvIds :
        ContextServed(id) =>
            LET e == ev[id]
                N == e.total
                M == Len(Log(store, e.rid))
            IN  /\ N >= 1 /\ e.limit > 0
                /\ e.block_start = ((N - 1) \div e.limit) * e.limit
                /\ e.block_start % e.limit = 0
                /\ e.block_start < N
                /\ e.history = Entries(store, e.rid, e.block_start, Min(e.block_start + e.limit, M))
                /\ Len(e.history) = Max(0, Min(e.limit, M - e.block_start))

\* the chat summary added its two entries before the rows were read, and the
\* context is larger than min(limit, N - block_start)
C4_SummaryInContext ==
    \E id \in EvIds :
        /\ ContextServed(id)
        /\ last.op = "chat_summary"
        /\ Len(ev[id].history) > Min(ev[id].limit, ev[id].total - ev[id].block_start)

----------------------------------------------------------------------------
(* Properties of trigger_memory_summary and handle_chat *)

\* C7: the value trigger_memory_summary returns tells which of its three
\* outcomes happened: a text other than "noneed" exactly when the
\* summarization was performed, "noneed" exactly when the gate was closed and
\* nothing changed, and null exactly when the call failed and nothing changed.
C7_OutcomesDistinguishable ==
    \A id \in EvIds :
        ev[id].outcome # "" =>
            /\ ev[id].outcome = "performed" <=>
                   (~ev[id].new_core.none /\ ev[id].new_core # Str(NONEED))
            /\ ev[id].outcome = "gate_closed" <=> ev[id].new_core = Str(NONEED)
            /\ ev[id].outcome = "failed" <=> ev[id].new_core.none

\* core_memory, the counter and last_summarized_at of a store
SummaryState(db) ==
    <<db.core_memory, db.message_count_since_summary, db.last_summarized_at>>

\* the step is the one in which the core-memory call of request id returns
CoreReturned(id) == ev[id].pc = "core" /\ ev'[id].pc # "core"

\* the step is a memory_summarization event that ended without an HTTP call
EndedWithoutCall(id) ==
    /\ last'.op = "summarize"
    /\ last'.id = id
    /\ ev'[id].outcome \in {"gate_closed", "failed"}

Spaces(n) == [i \in 1..n |-> " "]

\* x is s without its leading and trailing whitespace
IsStripOf(x, s) ==
    /\ \E i, j \in 0..Len(s) : s = Spaces(i) \o x \o Spaces(j)
    /\ x # <<>> => (x[1] # " " /\ x[Len(x)] # " ")

\* C8 as stated: when the gateway answers {success:true, content:X} the
\* role's core_memory becomes X, the counter 0 and last_summarized_at now;
\* when the gate is closed or the call fails all three stay as they were.
C8_CoreSetToContent ==
    [][ \A id \in EvIds :
            LET e == ev'[id]
                t == e.target
            IN  /\ CoreReturned(id) =>
                       IF e.result.success
                       THEN SummaryState(store'[t]) = <<e.result.content, 0, now>>
                       ELSE SummaryState(store'[t]) = SummaryState(store[t])
                /\ EndedWithoutCall(id) =>
                       SummaryState(store'[t]) = SummaryState(store[t]) ]_vars

\* C8 as the code has it: when the gateway answers {success:true, content:X}
\* with X not empty, the role's core_memory becomes X without its leading
\* and trailing whitespace, the counter 0 and last_summarized_at now; when X
\* is empty, the call fails or the gate is closed, all three stay as they were.
C8_CoreSetToStrippedContent ==
    [][ \A id \in EvIds :
            LET e == ev'[id]
                t == e.target
            IN  /\ CoreReturned(id) =>
                       IF e.result.success /\ e.result.content # <<>>
                       THEN /\ IsStripOf(store'[t].core_memory, e.result.content)
                            /\ store'[t].message_count_since_summary = 0
                            /\ store'[t].last_summarized_at = now
                       ELSE SummaryState(store'[t]) = SummaryState(store[t])
                /\ EndedWithoutCall(id) =>
                       SummaryState(store'[t]) = SummaryState(store[t]) ]_vars

\* a summarization was performed whose answer had whitespace around the text
C8_AnswerStripped ==
    \E id \in EvIds :
        /\ ev[id].outcome = "performed"
        /\ ev[id].result.content # ev[id].new_core.text
        /\ store[ev[id].target].core_memory = <<"X">>

\* C9 as stated: the core-memory summarization of a chat event for role R
\* calls the gateway with R's own model, URL and key, and on success writes
\* the result to R's core memory.
C9_CallsWithOwnProfile ==
    [][ \A id \in EvIds :
            /\ (ev'[id].kind = "chat" /\ ev'[id].pc = "core") =>
                   ev'[id].call = direct_config(ev'[id].role)
            /\ (ev[id].kind = "chat" /\ CoreReturned(id) /\ ev'[id].outcome = "performed") =>
                   store'[ev[id].rid].core_memory = ev'[id].new_core.text ]_vars

\* C9 as the code has it: the core-memory summarization of a chat event for
\* role R calls the gateway with the model, URL and key of the profile of
\* worker "1000000000000", and only when that profile has all three; on
\* success it writes the result to R's core memory.
C9_CallsWithWorkerProfile ==
    [][ \A id \in EvIds :
            /\ (ev'[id].kind = "chat" /\ ev'[id].pc = "core") =>
                   /\ profiles["1000000000000"].exists
                   /\ call_ai_direct_configured(profiles["1000000000000"])
                   /\ ev'[id].call = direct_config(profiles["1000000000000"])
            /\ (ev[id].kind = "chat" /\ CoreReturned(id) /\ ev'[id].outcome = "performed") =>
                   store'[ev[id].rid].core_memory = ev'[id].new_core.text ]_vars

\* the summarization of a chat event is in flight with a model, URL and key
\* that are not those of the role, which has all three of its own
C9_CallNotWithOwnProfile ==
    \E id \in EvIds :
        /\ ev[id].kind = "chat"
        /\ ev[id].pc = "core"
        /\ call_ai_direct_configured(ev[id].role)
        /\ ev[id].call # direct_config(ev[id].role)

\* C10: when the gateway answers the generation call of a chat event with
\* {success:false, error:e}, handle_chat returns {success:false,
\* action:"ignore", error:e} and the role's log is as long as it was when
\* the event started: the event has appended no entry.
C10_FailureAppendsNothing ==
    \A id \in EvIds :
        ( /\ last.op = "generate"
          /\ last.id = id
          /\ ev[id].pc = "done"
          /\ ~ev[id].response.success ) =>
            /\ ev[id].response = AIResponse(FALSE, "ignore", None, "timeout")
            /\ Len(Log(store, ev[id].rid)) = ev[id].total

----------------------------------------------------------------------------
(* Properties of the dispatcher *)

\* the step just taken is the return of the generation call of request id,
\* and the gateway answered it with a failure
GenerationFailed(id) ==
    /\ last.op = "generate"
    /\ last.id = id
    /\ ~ev[id].generation.success

\* C11: when the generation call of a chat, proactive or task event fails,
\* the event is answered with {success:false, error} carrying the gateway's
\* error, and the role's memory record (the number of log entries, core
\* memory, counter, last_context_block_start, updated_at) is what it was
\* when the event started.
C11_FailureLeavesRecord ==
    \A id \in EvIds :
        (ev[id].kind \in {"chat", "proactive", "task"} /\ GenerationFailed(id)) =>
            /\ ev[id].pc = "done"
            /\ ev[id].response =
                   AIResponse(FALSE, "ignore", None, ev[id].generation.error)
            /\ Marks(store[ev[id].rid]) = ev[id].before

\* the event types that handle_ai_event dispatches
HandlerKinds == {"chat", "proactive", "task", "moment", "comment", "summarize"}

\* C12: every handler that handle_ai_event dispatches to ends by returning an
\* AIResponse {success, action, content, error, metadata}, and a result with
\* success = false has a non-empty error and the action "ignore".
C12_UniformResult ==
    \A id \in EvIds :
        (ev[id].kind \in HandlerKinds /\ ev[id].pc = "done" /\ ev[id].response.http # 404) =>
            /\ ev[id].response.http = 200
            /\ ~ev[id].response.success =>
                   (ev[id].response.error # "" /\ ev[id].response.action = "ignore")

\* model, URL or key is empty in the role and in settings.json
ConfigMissing(role_data) ==
    \/ Or(role_data.ai_model, settings.ai_model) = ""
    \/ Or(role_data.ai_api_url, settings.ai_api_url) = ""
    \/ Or(role_data.ai_api_key, settings.ai_api_key) = ""

\* C15: when the resolved model, URL or key of a call_ai call is missing, no
\* HTTP request is issued and the caller gets {success:false,
\* error:"AI API not configured"} at once.
C15_NoRequestWithoutConfig ==
    \A id \in EvIds :
        (ev[id].kind \in {"chat", "proactive", "task", "moment", "comment"}
            /\ ConfigMissing(ev[id].role)) =>
            /\ ev[id].pc # "generate"
            /\ (ev[id].kind = "moment" /\ ev[id].pc = "done") =>
                   ev[id].response =
                       AIResponse(FALSE, "ignore", None, "AI API not configured")

\* the two rows that lines 218-219 of handle_chat append for request id
ChatTurns(id) ==
    << Row("user", UserContent(ev[id].msg, ev[id].sent), now),
       Row("assistant", ev[id].generation.content, now) >>

\* C13: when the generation call of a chat event succeeds, the step that
\* receives the answer appends the user and the assistant turn, in that
\* order and as the last entries of the role's log, the handler goes on to
\* the core-memory and emotion sub-calls, and when it returns it returns an
\* AIResponse with success true and action "reply", whatever the answers of
\* the chat-summary, bridging, core-memory and emotion sub-calls were and
\* whether or not their worker profiles exist.
C13_ReplyDespiteSubcalls ==
    \A id \in EvIds :
        (ev[id].kind = "chat" /\ ev[id].generation.success) =>
            /\ ev[id].pc \in {"core", "emotion", "done"}
            /\ ev[id].pc = "done" =>
                   /\ ev[id].response.http = 200
                   /\ ev[id].response.success
                   /\ ev[id].response.action = "reply"
                   /\ ~ev[id].response.content.none
            /\ (last.op = "generate" /\ last.id = id) =>
                   /\ AppendedRows(ev[id].rid, last.calls) = ChatTurns(id)
                   /\ Len(Log(store, ev[id].rid)) >= 2
                   /\ SubSeq(Log(store, ev[id].rid), Len(Log(store, ev[id].rid)) - 1,
                             Len(Log(store, ev[id].rid))) = ChatTurns(id)

\* a chat event replied although its chat summary and its core-memory
\* summary were both called and both failed and no emotion was found
C13_RepliedAfterFailedSubcalls ==
    \E id \in EvIds :
        /\ ev[id].kind = "chat"
        /\ ev[id].pc = "done"
        /\ ev[id].generation.success
        /\ ev[id].response.action = "reply"
        /\ ev[id].trigger
        /\ ev[id].summary.none
        /\ ev[id].outcome = "failed"
        /\ ev[id].emoji.none


\* C14: a POST /ai/event whose role_id has no profile is answered with the
\* 404 error in one step that makes no call of the memory store, leaves the
\* store of every role as it was and suspends in no AI call.
C14_RejectedBeforeMemory ==
    [][ \A id \in EvIds, rid \in Roles :
            (Free(id) /\ ~profiles[rid].exists /\ ev'[id].kind \in HandlerKinds
                /\ last'.id = id /\ last'.rid = rid /\ ev'[id].rid = rid) =>
                /\ store' = store
                /\ last'.calls = <<>>
                /\ ev'[id].pc = "done"
                /\ ev'[id].call = NoCall
                /\ ev'[id].response = HttpError(404) ]_vars

\* an event was rejected for a role id whose store holds entries and has
\* no context block recorded yet
C14_RejectedWithEntries ==
    \E id \in EvIds :
        /\ last.op = "not_found"
        /\ last.id = id
        /\ ev[id].response = HttpError(404)
        /\ Len(Log(store, ev[id].rid)) > 0
        /\ Marks(store[ev[id].rid]) = ev[id].before
        /\ store[ev[id].rid].last_context_block_start = NO_BLOCK


----------------------------------------------------------------------------
(* Properties of concurrent events *)

Counter(st, rid) == load_memory(st[rid]).message_count_since_summary

\* the counter that append_short_term and update_core_memory leave behind
\* when the store calls are made one after the other on a counter n
CounterAfter(n, rid, calls) ==
    AppendsAfter([r \in Roles |-> IF r = rid THEN n ELSE 0], calls)[rid]

\* the message inside the user entry that handle_chat appends
IsUserTurn(row) == row.role = "user" /\ Len(row.content) > 6 /\ row.content[1] = "message: "
MessageOf(row) == SubSeq(row.content, 2, Len(row.content) - 5)

\* every user turn in the log is directly followed by the reply to it
TurnsPaired(log) ==
    \A i \in 1..Len(log) :
        IsUserTurn(log[i]) =>
            /\ i < Len(log)
            /\ log[i + 1].role = "assistant"
            /\ log[i + 1].content = Quote(MessageOf(log[i]))

\* C16: with events of one role interleaved at their AI calls, every step
\* of every event leaves the role's log equal to the log before the step
\* followed by the rows the step appended, in order, so no entry written by
\* another event is lost or displaced; the counter after the step is the
\* counter before it plus one per append (or zero plus the later appends
\* when the step ran update_core_memory); and in the log every user entry
\* of a chat event is directly followed by the assistant entry of the same
\* event.
C16_NoLostUpdate ==
    [][ \A rid \in Roles :
            /\ Log(store', rid) = Log(store, rid) \o AppendedRows(rid, last'.calls)
            /\ Counter(store', rid) = CounterAfter(Counter(store, rid), rid, last'.calls)
            /\ TurnsPaired(Log(store', rid)) ]_vars

\* a chat event has just appended its two turns after the reply of an event
\* that was started later: the later event ran while it was suspended
C16_AppendedAfterLaterEvent ==
    \E id \in ConcIds :
        /\ last.op = "generate"
        /\ last.id = id
        /\ ev[id].kind = "chat"
        /\ ev[id].generation.success
        /\ ev[id].msg = ConcMessage(0)
        /\ LET log == Log(store, ConcRole)
               n == Len(log)
           IN  /\ n >= 4
               /\ log[n] = Row("assistant", Quote(ConcMessage(0)), now)
               /\ IsUserTurn(log[n - 1])
               /\ MessageOf(log[n - 1]) = ConcMessage(0)
               /\ \E i \in 1..(n - 2) : log[i].content = Quote(ConcMessage(1))


----------------------------------------------------------------------------
(* Properties of the scheduler *)

\* whether the hour of t lies in the quiet hours [start, end) of cfg, a
\* window with start > end running past midnight
InQuietHours(cfg, t) ==
    IF cfg.quiet_hours_start <= cfg.quiet_hours_end
    THEN cfg.quiet_hours_start <= hour_of(t) /\ hour_of(t) < cfg.quiet_hours_end
    ELSE cfg.quiet_hours_start <= hour_of(t) \/ hour_of(t) < cfg.quiet_hours_end

ProactiveJobs(rid) == get_job(sched.jobs, proactive_job_id(rid))

\* C17: no pending proactive job has a run date inside the quiet hours of
\* its role.
C17_NeverInQuietHours ==
    \A rid \in Roles :
        \A j \in ProactiveJobs(rid) : ~InQuietHours(sched.proactive[rid], j.run_date)

\* a proactive event of the role, fired by its job, has not returned yet
InFlight(rid) ==
    \E id \in EvIds :
        /\ ev[id].origin = "proactive_job"
        /\ ev[id].rid = rid
        /\ ev[id].pc \notin {"idle", "done"}

\* C18: while the scheduler runs, a role with a profile and an enabled
\* proactive_config has a pending proactive job whenever its proactive
\* event is not being handled: every firing is followed by a new job once
\* the callback has ended, however it ended.
C18_JobRenewed ==
    \A rid \in Roles :
        (sched.running /\ load_role(rid).exists /\ sched.proactive[rid].enabled
            /\ ~InFlight(rid)) =>
            ProactiveJobs(rid) # {}

\* the number of proactive jobs schedule_proactive_for_role(rid) leaves
JobsWanted(rid) == IF load_role(rid).exists /\ sched.proactive[rid].enabled THEN 1 ELSE 0

\* the step just taken ran schedule_proactive_for_role(rid) to its end: a
\* call of it, start_scheduler, or the return of the job's callback
ScheduledNow(rid) ==
    \/ last.op = "schedule_proactive" /\ last.rid = rid
    \/ last.op = "start_scheduler"
    \/ \E id \in EvIds :
          /\ last.id = id
          /\ ev[id].origin = "proactive_job"
          /\ ev[id].rid = rid
          /\ ev[id].pc = "done"
          /\ ~Raised(ev[id].response)

\* C19: there is never more than one pending proactive job of a role, and
\* when schedule_proactive_for_role(r) has just returned r has exactly one
\* if its profile exists and its proactive_config is enabled, none if not.
C19_OneProactiveJob ==
    \A rid \in Roles :
        /\ Cardinality(ProactiveJobs(rid)) <= 1
        /\ ScheduledNow(rid) => Cardinality(ProactiveJobs(rid)) = JobsWanted(rid)

\* schedule_proactive_for_role was called for a role whose job was pending:
\* that job was removed and one job, added by this call, is pending
C19_ReplacedPendingJob ==
    \E rid \in Roles :
        /\ last.op = "schedule_proactive"
        /\ last.rid = rid
        /\ sched.removed = { proactive_job_id(rid) }
        /\ \E j \in ProactiveJobs(rid) : j.added = now /\ now \notin StartClocks

TaskJobs(task_id) == get_job(sched.jobs, task_job_id(task_id))

Overdue(task, t) == task.trigger_time.kind = "time" /\ task.trigger_time.t < t

\* C20: a task whose trigger_time has passed when schedule_task gets it,
\* from scheduled.json at start or from a caller, has no job afterwards,
\* so a job of the same task id that was pending is gone; every task job,
\* pending or run, carries a run date that is the task's trigger_time and
\* was not in the past when the job was added, and runs no earlier.
C20_PastTaskNeverScheduled ==
    /\ \A j \in sched.jobs :
           j.id[1] = "task" =>
               /\ j.arg.trigger_time = At(j.run_date)
               /\ j.run_date >= j.added
    /\ \A i \in 1..Len(sched.fired) :
           sched.fired[i].id[1] = "task" =>
               /\ sched.fired[i].job.arg.trigger_time = At(sched.fired[i].job.run_date)
               /\ sched.fired[i].job.run_date >= sched.fired[i].job.added
               /\ sched.fired[i].at >= sched.fired[i].job.run_date
    /\ (last.op = "schedule_task" /\ Overdue(sched.passed, now)) =>
           TaskJobs(sched.passed.id) = {}
    /\ last.op = "start_scheduler" =>
           \A i \in 1..Len(sched.tasks) :
               Overdue(sched.tasks[i], now) => TaskJobs(sched.tasks[i].id) = {}

\* schedule_task was handed an overdue task whose earlier job was pending,
\* and the scheduler had skipped an overdue task of the file at its start
C20_OverdueTaskReplacedJob ==
    /\ last.op = "schedule_task"
    /\ Overdue(sched.passed, now)
    /\ sched.removed = { task_job_id(sched.passed.id) }
    /\ TaskJobs(sched.passed.id) = {}
    /\ \E i \in 1..Len(sched.tasks) :
           /\ sched.tasks[i].enabled
           /\ Overdue(sched.tasks[i], now)
           /\ TaskJobs(sched.tasks[i].id) = {}


\* the tasks of scheduled.json, by their place in the file
TaskPlaces == 1..Len(TaskFile(0))

\* the firings of the task at place i of the file
FiringsOf(i) ==
    { k \in 1..Len(sched.fired) : sched.fired[k].id = task_job_id(sched.tasks[i].id) }

\* the task at place i is enabled and its trigger_time is not in the past
Armable(i, t) ==
    /\ sched.tasks[i].enabled
    /\ sched.tasks[i].trigger_time.kind = "time"
    /\ sched.tasks[i].trigger_time.t >= t

\* what holds of the tasks of the file in every state: start_scheduler
\* leaves a job for the enabled tasks whose trigger_time is ahead and none
\* for a disabled task; a task is run at most once, no job of it is pending
\* once it has run, however its repeat field is set, and a disabled task is
\* never run; the event of a run is a task event with the task's prompt as
\* content and the task's id as context
TaskFiredOnce ==
    /\ \A i \in TaskPlaces :
           /\ last.op = "start_scheduler" =>
                  IF Armable(i, now)
                  THEN \E j \in TaskJobs(sched.tasks[i].id) :
                           j.arg = sched.tasks[i] /\ j.run_date = sched.tasks[i].trigger_time.t
                  ELSE TaskJobs(sched.tasks[i].id) = {}
           /\ Cardinality(FiringsOf(i)) <= 1
           /\ FiringsOf(i) # {} => TaskJobs(sched.tasks[i].id) = {}
           /\ ~sched.tasks[i].enabled => FiringsOf(i) = {}
    /\ \A k \in 1..Len(sched.fired), id \in EvIds :
           (sched.fired[k].id[1] = "task" /\ last.op = "task" /\ last.id = id) =>
               /\ ev[id].kind = "task"
               /\ ev[id].origin = "task_job"
               /\ ev[id].rid = sched.fired[k].job.arg.role_id
               /\ ev[id].msg = sched.fired[k].job.arg.ai_prompt
               /\ ev[id].context = sched.fired[k].job.arg.id

----------------------------------------------------------------------------
(* Properties of the cycle check *)

\* the lengths the profile.json of an event's role holds
LengthsOf(e) == profiles[e.rid].menstruation_cycle

\* C24, as the claim's sentence has it: the day _if_in_menstruation returns
\* is strictly less than period_length when it returns True with it, and
\* strictly less than cycle_length when it returns False with it.
C24_DayBelowPeriodLength ==
    \A id \in EvIds :
        /\ ev[id].cycle.in_menstruation = "true"
               => ev[id].cycle.day < LengthsOf(ev[id]).period_length
        /\ ev[id].cycle.in_menstruation = "false"
               => ev[id].cycle.day < LengthsOf(ev[id]).cycle_length

\* C24, amended: the day _if_in_menstruation returns is the day counted from
\* 1, so it is at most period_length when it returns True with it (and equals
\* period_length on the period's last day), and it is strictly less than
\* cycle_length when it returns False with it.
C24_DayWithinPeriod ==
    \A id \in EvIds :
        /\ ev[id].cycle.in_menstruation = "true"
               => ev[id].cycle.day <= LengthsOf(ev[id]).period_length
        /\ ev[id].cycle.in_menstruation = "false"
               => ev[id].cycle.day < LengthsOf(ev[id]).cycle_length

\* a check on the last day of a period returned the period's length
C24_LastDayOfPeriod ==
    \E id \in EvIds :
        /\ ev[id].cycle.in_menstruation = "true"
        /\ ev[id].cycle.day = LengthsOf(ev[id]).period_length
        /\ store[ev[id].rid].last_period_start.kind = "date"
        /\ date_of(now) - store[ev[id].rid].last_period_start.day
               = LengthsOf(ev[id]).period_length - 1

\* the step in which the handler of event id runs _if_in_menstruation
CycleStep(id) == ev[id].pc = "cycle" /\ ev'[id].pc # "cycle"

\* the date is one of a started cycle: d <= today < d + cycle_length
Converged(start, cycle_length, today) ==
    /\ start.kind = "date"
    /\ start.day <= today
    /\ today < start.day + cycle_length

C26_FutureStartNoSentence ==
    \A id \in EvIds :
        ( /\ ev[id].kind = "chat"
          /\ ev[id].pc \in {"generate", "done"}
          /\ get_menstruation_cycle_info(profiles[ev[id].rid])
          /\ store[ev[id].rid].last_period_start.kind = "date"
          /\ store[ev[id].rid].last_period_start.day > date_of(now) )
        => /\ ev[id].note = ""
           /\ ev[id].response.http # 500

----------------------------------------------------------------------------
(* Properties of handle_moment_comment *)

\* C27: when the draw of a moment_comment event selects the skip branch, the
\* handler returns {success: true, action: "ignore", content: null} in the
\* step the event arrives in, with no call to the AI Gateway begun and no
\* store, profile or scheduler state changed.
C27_SkippedCommentIgnored ==
    [][\A id \in EvIds :
          (last'.op = "comment" /\ last'.id = id /\ ev'[id].gate = "skip")
              => /\ ev'[id].pc = "done"
                 /\ ev'[id].response = AIResponse(TRUE, "ignore", None, "")
                 /\ ev'[id].call = NoCall
                 /\ ev'[id].sent = 0
                 /\ last'.calls = <<>>
                 /\ ~last'.read
                 /\ UNCHANGED <<store, appends, profiles, sched>>
      ]_vars

\* a moment_comment event of a role with a prompt, a model, a URL and a key
\* drew the skip branch
C27_CommentSkipped ==
    \E id \in EvIds :
        /\ ev[id].kind = "comment"
        /\ ev[id].gate = "skip"
        /\ ev[id].pc = "done"
        /\ ev[id].role.has_prompt
        /\ call_ai_configured(get_role_ai_config(ev[id].role))

----------------------------------------------------------------------------
(* Properties of a context request after fewer appends than the limit *)

\* request id, with limit 60, found a store that had received N < 60 appends
\* since it was empty, and its rows have been read
ContextOfAppends(id) ==
    /\ ev[id].kind = "context"
    /\ ContextServed(id)
    /\ ev[id].limit = get_memory_length
    /\ ev[id].before.entries = ev[id].total
    /\ ev[id].total < ev[id].limit
    /\ ev[id].before.message_count_since_summary = ev[id].total
    /\ ev[id].before.core_memory = <<>>

\* C28, as the claim's sentence has it: after N < 60 appends to an empty
\* memory should_summarize is false, a context request with limit 60 returns
\* exactly the entries [0, N) in order and leaves message_count_since_summary
\* as it was, so that should_summarize is still false after it.
C28_ContextKeepsCounter ==
    \A id \in EvIds :
        ContextOfAppends(id) =>
            LET e == ev[id]
                db == store[e.rid]
            IN  /\ e.before.message_count_since_summary < get_memory_length
                /\ e.history = Entries(store, e.rid, 0, e.total)
                /\ Len(Log(store, e.rid)) = e.total
                /\ db.message_count_since_summary = e.before.message_count_since_summary
                /\ ~should_summarize(db)

\* C28, amended: after N < 60 appends to an empty memory should_summarize is
\* false.  The step in which a context request with limit 60 that counted
\* fewer than 60 entries reads its rows leaves the log and the counter as
\* they were when its chat summary was not called or failed, and has appended
\* two entries through append_short_term, raising the counter by 2, when the
\* chat summary succeeded; the context returned is the first min(M, 60)
\* entries of the log of M entries it leaves, and should_summarize is true
\* afterwards exactly when the counter, the summary's two appends included,
\* has reached 60.
C28_ContextCountsSummary ==
    [][\A id \in EvIds :
          \/ ~last'.read
          \/ last'.id # id
          \/ ev'[id].kind # "context"
          \/ ev'[id].limit # get_memory_length
          \/ ev'[id].total >= get_memory_length
          \/ LET e == ev'[id]
                  old == store[e.rid]
                  new == store'[e.rid]
                  added == IF e.summary.none THEN 0 ELSE 2
              IN  /\ Len(new.short_term) = Len(old.short_term) + added
                  /\ SubSeq(new.short_term, 1, Len(old.short_term)) = old.short_term
                  /\ new.message_count_since_summary = old.message_count_since_summary + added
                  /\ appends'[e.rid] = appends[e.rid] + added
                  /\ e.history = Entries(store', e.rid, 0,
                                         Min(Len(new.short_term), e.limit))
                  /\ should_summarize(new)
                         <=> old.message_count_since_summary + added >= get_memory_length
      ]_vars

\* a context request after 59 appends ran a chat summary that succeeded: it
\* returned 60 entries, and the counter stands at 61 with should_summarize true
C28_SummaryOpenedGate ==
    \E id \in EvIds :
        /\ ContextOfAppends(id)
        /\ ev[id].total = get_memory_length - 1
        /\ ~ev[id].summary.none
        /\ Len(ev[id].history) = get_memory_length
        /\ store[ev[id].rid].message_count_since_summary = get_memory_length + 1
        /\ should_summarize(store[ev[id].rid])

----------------------------------------------------------------------------
(* Properties of the block-transition trigger *)

\* the step in which request id arrives and get_context_messages counts the
\* rows of a log that has some, with a limit above 0
ContextCounted(id) ==
    /\ last'.id = id
    /\ ev[id].pc \in {"idle", "done"}
    /\ ev'[id].limit > 0
    /\ ~ev'[id].early

\* the step in which the chat summary awaited by request id returns
ChatSummaryReturned(id) == last'.id = id /\ ev[id].pc = "chat_summary"

\* C29: a context request invokes the chat summary if and only if the block
\* start it computes differs from the stored last_context_block_start; it
\* stores the new value in the step in which the summary's call begins, so
\* every invocation changes the stored value and no two requests for one role
\* await a chat summary for the same block; and the rows are read and the
\* context returned whatever the summary's call answers.
C29_TriggerOncePerBlock ==
    [][\A id \in DOMAIN ev :
          LET e == ev'[id]
              old == store[e.rid]
              new == store'[e.rid]
              N == Len(old.short_term)
          IN  /\ ContextCounted(id) =>
                     /\ e.block_start = ((N - 1) \div e.limit) * e.limit
                     /\ e.trigger <=> old.last_context_block_start # e.block_start
                     /\ e.trigger => /\ new.last_context_block_start = e.block_start
                                     /\ new.last_context_block_start # old.last_context_block_start
                     /\ ~e.trigger => /\ new.last_context_block_start = old.last_context_block_start
                                      /\ e.pc # "chat_summary"
                     /\ e.pc = "chat_summary" => e.call = direct_config(profiles[WORKER_CHAT_SUMMARY])
                     /\ e.pc # "chat_summary" => last'.read
              /\ ChatSummaryReturned(id) =>
                     /\ last'.read
                     /\ e.pc # "chat_summary"
                     /\ e.history = select_rows(new.short_term, e.limit, e.block_start)
                     /\ new.last_context_block_start = old.last_context_block_start
              /\ \A other \in DOMAIN ev \ {id} :
                     ( /\ e.pc = "chat_summary"
                       /\ ev'[other].pc = "chat_summary"
                       /\ ev'[other].rid = e.rid
                       /\ ev'[other].limit = e.limit )
                     => ev'[other].block_start # e.block_start
      ]_vars

\* while one request awaits the chat summary of a block, a second request for
\* the role has counted the same block and has not invoked the summary
C29_SecondRequestSilent ==
    \E id \in DOMAIN ev, other \in DOMAIN ev :
        /\ id # other
        /\ ev[id].pc = "chat_summary"
        /\ ev[other].rid = ev[id].rid
        /\ ev[other].pc \notin {"idle", "done"}
        /\ ev[other].limit = ev[id].limit
        /\ ~ev[other].early
        /\ ~ev[other].trigger
        /\ ev[other].block_start = ev[id].block_start

----------------------------------------------------------------------------
(* Properties of sequential_memory_generation *)

\* the step in which the bridging memory's call of request id returns
SequentialReturned(id) == last'.id = id /\ ev[id].pc = "sequential"

\* the step in which request id has read its context and
\* sequential_memory_generation begins
SequentialCalled(id) ==
    /\ last'.id = id
    /\ last'.read
    /\ ev'[id].kind = "chat"

\* the two entries of a bridging memory with narrative text
BridgeRows(text, t) ==
    << Row("user", SEQUENTIAL_MARK, t), Row("assistant", SEQUENTIAL_PREFIX \o text, t) >>

\* the step appended no entry to the log of rid and left its counter
LogKept(rid) ==
    /\ store'[rid].short_term = store[rid].short_term
    /\ store'[rid].message_count_since_summary = store[rid].message_count_since_summary

\* the step appended the bridging memory with narrative text, and no more
BridgeAppended(rid, text) ==
    /\ store'[rid].short_term = store[rid].short_term \o BridgeRows(text, now)
    /\ store'[rid].message_count_since_summary = store[rid].message_count_since_summary + 2

\* the gate of should_generate_sequential_memory on the store the step leaves
GateOpen(rid) ==
    \/ store'[rid].updated_at = NoTime
    \/ now - store'[rid].updated_at >= SEQUENTIAL_GAP_SECONDS

\* C30, as the claim's sentence has it: sequential_memory_generation appends
\* its two entries and returns the narrative if and only if the gate is
\* open, the call succeeds and the response is not "none" in any letter case;
\* a "none" response or a closed gate returns "noneed", a failed call returns
\* null, and then the log and the counter are unchanged.
C30_BridgeUnlessNone ==
    [][\A id \in EvIds :
          /\ SequentialReturned(id) =>
                 LET resp == ev'[id].result
                     text == strip(resp.content)
                 IN  IF resp.success /\ lower(text) # NONE_TEXT
                     THEN /\ BridgeAppended(ev[id].rid, text)
                          /\ ev'[id].sequential = Str(text)
                     ELSE /\ LogKept(ev[id].rid)
                          /\ ev'[id].sequential = IF resp.success THEN Str(NONEED) ELSE None
          /\ (SequentialCalled(id) /\ ~GateOpen(ev'[id].rid)) =>
                 /\ ev'[id].pc # "sequential"
                 /\ ev'[id].sequential = Str(NONEED)
      ]_vars

\* C30, amended: sequential_memory_generation appends its two entries and
\* returns the narrative, the content stripped of surrounding whitespace, if
\* and only if the gate is open, the call succeeds with a content that is not
\* empty and the stripped content is not "none" in any letter case; such a
\* "none" or a closed gate returns "noneed", a failed call, a call that
\* succeeds with an empty content and a worker that cannot be called return
\* null, and then the log and the counter are unchanged.
C30_BridgeUnlessNoneOrEmpty ==
    [][\A id \in EvIds :
          /\ SequentialReturned(id) =>
                 LET resp == ev'[id].result
                     text == strip(resp.content)
                 IN  IF resp.success /\ resp.content # <<>> /\ lower(text) # NONE_TEXT
                     THEN /\ BridgeAppended(ev[id].rid, text)
                          /\ ev'[id].sequential = Str(text)
                     ELSE /\ LogKept(ev[id].rid)
                          /\ ev'[id].sequential =
                                 IF resp.success /\ resp.content # <<>>
                                 THEN Str(NONEED) ELSE None
          /\ (SequentialCalled(id) /\ ~GateOpen(ev'[id].rid)) =>
                 /\ ev'[id].pc # "sequential"
                 /\ ev'[id].sequential = Str(NONEED)
                 /\ \A i \in 1..Len(last'.calls) :
                        last'.calls[i].row.content # SEQUENTIAL_MARK
          /\ (SequentialCalled(id) /\ GateOpen(ev'[id].rid)) =>
                 IF WorkerCallable(WORKER_SEQUENTIAL)
                 THEN ev'[id].pc = "sequential"
                 ELSE ev'[id].pc # "sequential" /\ ev'[id].sequential = None
      ]_vars

\* a call answered " B " has appended the marker and the narrative "B" to a
\* log that had entries, and returned "B"
C30_NarrativeAppended ==
    \E id \in EvIds :
        LET log == store[ev[id].rid].short_term
        IN  /\ last.op = "sequential"
            /\ last.id = id
            /\ ev[id].result = AiOk(<<" ", "B", " ">>)
            /\ ev[id].sequential = Str(<<"B">>)
            /\ Len(log) > 2
            /\ SubSeq(log, Len(log) - 1, Len(log)) = BridgeRows(<<"B">>, now)

----------------------------------------------------------------------------
(* Properties of the log effect of each event type *)

\* request id has been answered with success
Succeeded(id) == ev[id].pc = "done" /\ ev[id].response.success

Entry(role, content) == [ role |-> role, content |-> content ]

\* the entries the log of the event's role has gained since the event arrived
AddedEntries(id) ==
    LET log == store[ev[id].rid].short_term
        n == ev[id].before.entries
    IN  [i \in 1..(Len(log) - n) |-> Entry(log[n + i].role, log[n + i].content)]

\* the two entries of the chat summary the event's context request ran
SummaryEntries(e) ==
    IF e.summary.none THEN <<>>
    ELSE << Entry("user", CHAT_SUMMARY_MARK),
            Entry("assistant", CHAT_SUMMARY_PREFIX \o e.summary.text) >>

\* the two entries of the bridging memory the event generated
BridgeEntries(e) ==
    IF e.sequential.none \/ e.sequential = Str(NONEED) THEN <<>>
    ELSE << Entry("user", SEQUENTIAL_MARK),
            Entry("assistant", SEQUENTIAL_PREFIX \o e.sequential.text) >>

\* the meta keys of the role's store and the number of its rows are those
\* the event found
RecordKept(id) == Marks(store[ev[id].rid]) = ev[id].before

\* C31, as the claim's sentence has it: a successful chat event appends its
\* user turn and then its assistant turn, a successful proactive or task
\* event appends exactly one assistant entry and no user entry, and a
\* successful moment_post or moment_comment event leaves the role's memory
\* record unchanged.
C31_EffectByTypeOnly ==
    \A id \in EvIds :
        Succeeded(id) =>
            LET e == ev[id]
            IN  /\ e.kind = "chat" =>
                       AddedEntries(id) = << Entry("user", UserContent(e.msg, e.sent)),
                                             Entry("assistant", e.reply) >>
                /\ e.kind \in {"proactive", "task"} =>
                       AddedEntries(id) = << Entry("assistant", e.reply) >>
                /\ e.kind \in {"moment", "comment"} => RecordKept(id)

\* C31, amended: a successful chat event appends its user turn and then its
\* assistant turn as the last two entries, after the two entries of the chat
\* summary and the two of the bridging memory when those sub-calls of the
\* event succeeded; a successful proactive event appends one assistant entry
\* of its own, after the two entries of the chat summary when its context
\* request ran one that succeeded; a successful task event appends exactly
\* one assistant entry; and a successful moment_post or moment_comment event
\* leaves the role's memory record unchanged.
C31_EffectByTypeAndSubCalls ==
    \A id \in EvIds :
        Succeeded(id) =>
            LET e == ev[id]
            IN  /\ e.kind = "chat" =>
                       AddedEntries(id) =
                           SummaryEntries(e) \o BridgeEntries(e) \o
                           << Entry("user", UserContent(e.msg, e.sent)),
                              Entry("assistant", e.reply) >>
                /\ e.kind = "proactive" =>
                       AddedEntries(id) =
                           SummaryEntries(e) \o << Entry("assistant", e.reply) >>
                /\ e.kind = "task" =>
                       /\ AddedEntries(id) = << Entry("assistant", e.reply) >>
                       /\ store[e.rid].last_context_block_start
                              = e.before.last_context_block_start
                /\ e.kind \in {"moment", "comment"} => RecordKept(id)

\* a proactive event has succeeded after a chat summary: the log has gained a
\* user entry, the summary's marker, besides the reply
C31_ProactiveWithSummary ==
    \E id \in EvIds :
        /\ Succeeded(id)
        /\ ev[id].kind = "proactive"
        /\ ~ev[id].summary.none
        /\ Len(AddedEntries(id)) = 3
        /\ AddedEntries(id)[1].role = "user"

----------------------------------------------------------------------------
(* Properties of the AI configuration chain *)

\* the first of the values that is set, in the order given
FirstSet(values, unset) ==
    LET set == { i \in DOMAIN values : values[i] # unset }
    IN  IF set = {} THEN unset
        ELSE values[CHOOSE i \in set : \A j \in set : i <= j]

\* an event whose generation holds its HTTP call
Generating(id) == ev[id].pc = "generate"

\* C32: model, URL, key and temperature of the call a generator sends are
\* each the first value that is set among the role's field, the role's
\* metadata, settings.json and the default of the code; a temperature set
\* on the role, 0 included, is the one sent
C32_PrecedenceChain ==
    \A id \in EvIds :
        Generating(id) =>
            LET role == ev[id].role
                meta == role.metadata
            IN  /\ ev[id].call.model =
                       FirstSet(<<role.ai_model, meta.ai_model, settings.ai_model,
                                  "gpt-3.5-turbo">>, "")
                /\ ev[id].call.url =
                       normalize_api_url(FirstSet(<<role.ai_api_url, meta.ai_api_url,
                                                    settings.ai_api_url>>, ""))
                /\ ev[id].call.key =
                       FirstSet(<<role.ai_api_key, meta.ai_api_key, settings.ai_api_key>>, "")
                /\ ev[id].temperature =
                       FirstSet(<<role.ai_temperature, meta.ai_temperature,
                                  settings.ai_temperature, DEFAULT_TEMPERATURE>>,
                                NoTemperature)

\* the same chain for the calls in which no level carries a temperature of 0
C32_ChainWithoutZero ==
    \A id \in EvIds :
        (Generating(id) /\ ev[id].role.ai_temperature # 0
                        /\ (ev[id].role.ai_temperature = NoTemperature
                              => /\ ev[id].role.metadata.ai_temperature # 0
                                 /\ (ev[id].role.metadata.ai_temperature = NoTemperature
                                       => settings.ai_temperature # 0)))
            => C32_PrecedenceChain

----------------------------------------------------------------------------
(* Properties of the bridging gate within one chat event *)

\* C33: a chat event that arrives at least 1200 seconds after the role's
\* last memory update, or to a role without updated_at, finds the gate of
\* the bridging memory open when handle_chat calls
\* sequential_memory_generation, and the bridging call is attempted in that
\* event; the context read and its chat summary never close the gate
C33_GapReachesBridge ==
    [][\A id \in EvIds :
          (SequentialCalled(id) /\ ev'[id].gap) =>
              /\ GateOpen(ev'[id].rid)
              /\ WorkerCallable(WORKER_SEQUENTIAL) => ev'[id].pc = "sequential"
      ]_vars

\* the same for the chat events whose context request ran no chat summary
\* that succeeded
C33_GapReachesBridgeUnsummarized ==
    [][\A id \in EvIds :
          (SequentialCalled(id) /\ ev'[id].gap /\ ev'[id].summary = None) =>
              /\ GateOpen(ev'[id].rid)
              /\ WorkerCallable(WORKER_SEQUENTIAL) => ev'[id].pc = "sequential"
      ]_vars

----------------------------------------------------------------------------
(* Properties of context requests in a row *)

\* the state that the n-th context request leaves when it has invoked the
\* chat summary
Invoked(n) ==
    /\ ops = n
    /\ last.op = "context"
    /\ \E id \in EvIds : last.id = id /\ ev[id].trigger

\* a context request that follows one that invoked no chat summary invokes
\* none and returns the block that one returned
StaysQuiet ==
    \A id \in EvIds :
        (last'.op = "context" /\ last'.id = id /\ ev[id].kind = "context"
            /\ ev[id].pc = "done" /\ ~ev[id].trigger) =>
            /\ ~ev'[id].trigger
            /\ ev'[id].pc = "done"
            /\ ev'[id].early = ev[id].early
            /\ ev'[id].block_start = ev[id].block_start
            /\ ev'[id].history = ev[id].history
            /\ store' = store

\* C34: with limit 60, context requests in a row on one role, with no other
\* memory operation in between, invoke the chat summary at most twice in
\* total from whatever memory state they start; a request after one that
\* invoked none invokes none and returns the same block
C34_AtMostTwoSummaries ==
    /\ \A a, b, c \in 1..MaxRequests :
           (a < b /\ b < c) => ([]~Invoked(a) \/ []~Invoked(b) \/ []~Invoked(c))
    /\ [][StaysQuiet]_vars

\* from 59 entries and no stored block the first two requests have each
\* invoked a chat summary that succeeded, and the third has invoked none and
\* returned the block that starts at entry 60 with its three entries
C34_TwoThenQuiet ==
    \E id \in EvIds :
        /\ ops = 3
        /\ last.op = "context"
        /\ last.id = id
        /\ ~ev[id].trigger
        /\ ev[id].block_start = get_memory_length
        /\ Len(ev[id].history) = 3
        /\ Len(store[WindowRole].short_term) = 63
        /\ store[WindowRole].short_term[60].content = CHAT_SUMMARY_MARK
        /\ store[WindowRole].short_term[62].content = CHAT_SUMMARY_MARK

----------------------------------------------------------------------------
(* Properties of the excerpt of the core-memory summary *)

\* the step in which the core-memory summary of request id has succeeded and
\* update_core_memory has reset the counter
CounterReset(id) ==
    /\ last'.op = "core"
    /\ last'.id = id
    /\ ev'[id].outcome = "performed"

\* the entries that the counter of rid counts: the last ones of the log
CountedEntries(rid) ==
    LastN(store[rid].short_term, store[rid].message_count_since_summary)

\* C35: every short-term entry appended since the last core-memory summary
\* is in the prompt of the next successful one: the counter is not reset to
\* 0 while an entry it counts is missing from the excerpt of that summary,
\* the last 60 entries
C35_CountedEntriesInExcerpt ==
    [][\A id \in EvIds :
          CounterReset(id) =>
              LET counted == CountedEntries(ev[id].target)
              IN  /\ store'[ev[id].target].message_count_since_summary = 0
                  /\ \A i \in 1..Len(counted) :
                         \E j \in 1..Len(ev[id].excerpt) : ev[id].excerpt[j] = counted[i]
      ]_vars

\* the same for the summaries that begin with a counter of exactly 60
C35_ExcerptAtThreshold ==
    [][\A id \in EvIds :
          (CounterReset(id)
              /\ store[ev[id].target].message_count_since_summary = get_memory_length) =>
              LET counted == CountedEntries(ev[id].target)
              IN  \A i \in 1..Len(counted) :
                      \E j \in 1..Len(ev[id].excerpt) : ev[id].excerpt[j] = counted[i]
      ]_vars

----------------------------------------------------------------------------
(* Properties of concurrent core-memory summaries *)

\* request id is inside trigger_memory_summary, awaiting its AI call
AwaitingCore(id) == ev[id].pc = "core"

\* C36: the core-memory summaries of one role do not overlap: while one
\* trigger_memory_summary awaits its AI call, no other event on the same
\* role starts a second one
C36_SummariesDoNotOverlap ==
    \A a, b \in ConcIds :
        (a # b /\ AwaitingCore(a) /\ AwaitingCore(b)) => ev[a].target # ev[b].target

\* no summary computed from older memory overwrites a newer one: no request
\* performs update_core_memory while another request on the same role has
\* performed it from an excerpt that extends this one's with later entries
C36_NoStaleOverwrite ==
    [][\A id, other \in ConcIds :
          (last'.op = "core" /\ last'.id = id /\ ev'[id].outcome = "performed") =>
              ~(/\ other # id
                /\ ev[other].outcome = "performed"
                /\ ev[other].target = ev[id].target
                /\ ev[other].excerpt # ev[id].excerpt
                /\ IsPrefix(ev[id].excerpt, ev[other].excerpt))
      ]_vars

----------------------------------------------------------------------------
(* Properties of the task endpoints and the task jobs *)

\* the step in which the job of a task has run and handed its event to the
\* callback as request id
TaskFired(id) ==
    /\ last'.op = "task"
    /\ last'.id = id
    /\ ev'[id].origin = "task_job"

\* the task records of scheduled.json with the given id that are enabled
EnabledRecords(task_id) ==
    { i \in 1..Len(sched.tasks) : sched.tasks[i].id = task_id /\ sched.tasks[i].enabled }

\* C37: a task disabled by toggle or deleted through the task endpoints
\* before its trigger_time fires no task event afterwards: every task event
\* that fires belongs to a task that is enabled and present in
\* scheduled.json when it fires
C37_FiredTaskEnabledAndPresent ==
    [][\A id \in EvIds : TaskFired(id) => EnabledRecords(ev'[id].context) # {}]_vars

=============================================================================
